---- MODULE Spec2Model ----
(***************************************************************************)
(* Model of the Bitcoin cryptography library (Uint256, FieldInt,           *)
(* CurvePoint, Ecdsa), translated from src/cpp/*.cpp.                      *)
(*                                                                         *)
(* Width.  TLC's integers are 32-bit, so the 8 x 32-bit representation     *)
(* cannot be evaluated directly.  The model keeps the word-array           *)
(* representation and every word-level loop of the code, and instantiates  *)
(* it at a reduced width: NUM_WORDS words of WORD_BITS bits.  The field    *)
(* modulus keeps the shape of secp256k1's,                                 *)
(*     MODULUS = 2^(NUM_WORDS*WORD_BITS) - 2^WORD_BITS - BARRETT_C,        *)
(* for which floor(2^(2*NUM_WORDS*WORD_BITS) / MODULUS) is                 *)
(* 2^(NUM_WORDS*WORD_BITS) + 2^WORD_BITS + BARRETT_C, as the Barrett       *)
(* reduction of FieldInt::multiply requires; the curve is y^2 = x^3 + B    *)
(* with A = 0, of prime order ORDER < MODULUS < 2 * ORDER, as secp256k1.   *)
(* Every operator below is parametric in these definitions only.           *)
(***************************************************************************)
EXTENDS Integers, Sequences, FiniteSets, TLC

WORD_BITS == 8
NUM_WORDS == 3
BARRETT_C == 23
TABLE_BITS == 4

WordMod == 2^WORD_BITS
TotalBits == NUM_WORDS * WORD_BITS
Indices == 0..(NUM_WORDS - 1)

(***************************************************************************)
(* Integer <-> word array.  Not code: the meaning of a Uint256, used to    *)
(* build inputs and to state properties.                                   *)
(***************************************************************************)
RECURSIVE ToIntFrom(_, _)
ToIntFrom(value, i) ==
    IF i = NUM_WORDS THEN 0 ELSE value[i] + WordMod * ToIntFrom(value, i + 1)

ToInt(value) == ToIntFrom(value, 0)

RECURSIVE FromIntFrom(_, _, _)
FromIntFrom(value, n, i) ==
    IF i = NUM_WORDS THEN value
    ELSE FromIntFrom([value EXCEPT ![i] = n % WordMod], n \div WordMod, i + 1)

FromInt(n) == FromIntFrom([i \in Indices |-> 0], n, 0)

(***************************************************************************)
(* uint32_t mask = -enable;  x & mask                                      *)
(***************************************************************************)
Mask(enable) == IF enable = 1 THEN WordMod - 1 ELSE 0
AndMask(x, mask) == IF mask = WordMod - 1 THEN x ELSE 0
AndNotMask(x, mask) == IF mask = WordMod - 1 THEN 0 ELSE x
BoolToInt(b) == IF b THEN 1 ELSE 0

(***************************************************************************)
(* Not code: Let({body : x \in {e}}) is body with x bound to the value of  *)
(* e, which is computed once, as C++ completes one statement before the    *)
(* next.  The result of each statement is bound under the code's name for  *)
(* the local it is stored in; where bindings nest, the statements of the   *)
(* code are the bindings read from the last line up to the first.          *)
(***************************************************************************)
Let(S) == CHOOSE res \in S : TRUE

(***************************************************************************)
(* Uint256                                                                 *)
(***************************************************************************)
Uint256_ZERO == FromInt(0)
Uint256_ONE == FromInt(1)

\* Uint256::add: returns the new value and the carry-out.
RECURSIVE Uint256_addLoop(_, _, _, _, _)
Uint256_addLoop(value, other, mask, i, carry) ==
    IF i = NUM_WORDS THEN [value |-> value, ret |-> carry]
    ELSE LET sum == value[i] + AndMask(other[i], mask) + carry
         IN Uint256_addLoop([value EXCEPT ![i] = sum % WordMod], other, mask,
                            i + 1, sum \div WordMod)

\* Uint256::add without the carry from one word into the next.
Uint256_addNoCarry(self, other, enable) ==
    [value |-> [i \in Indices |-> (self[i] + AndMask(other[i], Mask(enable))) % WordMod],
     ret |-> 0]

Uint256_add(self, other, enable) ==
    Uint256_addLoop(self, other, Mask(enable), 0, 0)

\* Uint256::subtract: returns the new value and the borrow-out.
RECURSIVE Uint256_subtractLoop(_, _, _, _, _)
Uint256_subtractLoop(value, other, mask, i, borrow) ==
    IF i = NUM_WORDS THEN [value |-> value, ret |-> borrow]
    ELSE LET diff == value[i] - AndMask(other[i], mask) - borrow
         IN Uint256_subtractLoop([value EXCEPT ![i] = diff % WordMod], other, mask,
                                 i + 1, IF diff < 0 THEN 1 ELSE 0)

Uint256_subtract(self, other, enable) ==
    Uint256_subtractLoop(self, other, Mask(enable), 0, 0)

\* Uint256::shiftLeft1: returns the new value and the old top bit.
RECURSIVE Uint256_shiftLeft1Loop(_, _, _)
Uint256_shiftLeft1Loop(value, i, prev) ==
    IF i = NUM_WORDS THEN [value |-> value, ret |-> prev \div (WordMod \div 2)]
    ELSE LET cur == value[i]
         IN Uint256_shiftLeft1Loop(
                [value EXCEPT ![i] = ((cur * 2) % WordMod) + (prev \div (WordMod \div 2))],
                i + 1, cur)

Uint256_shiftLeft1(self) == Uint256_shiftLeft1Loop(self, 0, 0)

\* Uint256::shiftRight1
RECURSIVE Uint256_shiftRight1Loop(_, _, _, _)
Uint256_shiftRight1Loop(value, mask, i, cur) ==
    IF i = NUM_WORDS - 1
    THEN [value EXCEPT ![i] = AndMask(cur \div 2, mask) + AndNotMask(cur, mask)]
    ELSE LET next == value[i + 1]
         IN Uint256_shiftRight1Loop(
                [value EXCEPT ![i] =
                    AndMask((cur \div 2) + ((next % 2) * (WordMod \div 2)), mask)
                    + AndNotMask(cur, mask)],
                mask, i + 1, next)

Uint256_shiftRight1(self, enable) ==
    Uint256_shiftRight1Loop(self, Mask(enable), 0, self[0])

\* Uint256::replace
RECURSIVE Uint256_replaceLoop(_, _, _, _)
Uint256_replaceLoop(value, other, mask, i) ==
    IF i = NUM_WORDS THEN value
    ELSE Uint256_replaceLoop(
             [value EXCEPT ![i] = AndMask(other[i], mask) + AndNotMask(value[i], mask)],
             other, mask, i + 1)

Uint256_replace(self, other, enable) ==
    Uint256_replaceLoop(self, other, Mask(enable), 0)

\* Uint256::swap: returns both values.
RECURSIVE Uint256_swapLoop(_, _, _, _)
Uint256_swapLoop(this, other, mask, i) ==
    IF i = NUM_WORDS THEN [this |-> this, other |-> other]
    ELSE LET x == this[i]
             y == other[i]
         IN Uint256_swapLoop(
                [this EXCEPT ![i] = AndMask(y, mask) + AndNotMask(x, mask)],
                [other EXCEPT ![i] = AndMask(x, mask) + AndNotMask(y, mask)],
                mask, i + 1)

\* Uint256::swap exchanging the values whatever enable is.
Uint256_swapAlways(self, other, enable) == [this |-> other, other |-> self]

Uint256_swap(self, other, enable) ==
    Uint256_swapLoop(self, other, Mask(enable), 0)

\* Uint256::operator==  (diff |= value[i] ^ other.value[i])
RECURSIVE Uint256_eqLoop(_, _, _, _)
Uint256_eqLoop(self, other, i, diff) ==
    IF i = NUM_WORDS THEN ~diff
    ELSE Uint256_eqLoop(self, other, i + 1, diff \/ (self[i] # other[i]))

Uint256_eq(self, other) == Uint256_eqLoop(self, other, 0, FALSE)

Uint256_ne(self, other) == ~Uint256_eq(self, other)

\* Uint256::operator<
RECURSIVE Uint256_ltLoop(_, _, _, _)
Uint256_ltLoop(self, other, i, result) ==
    IF i = NUM_WORDS THEN result
    ELSE LET eq == self[i] = other[i]
         IN Uint256_ltLoop(self, other, i + 1,
                           (eq /\ result) \/ (~eq /\ self[i] < other[i]))

\* Uint256::operator< with the loop running from the top word down, so
\* that the least significant differing word decides.
RECURSIVE Uint256_ltDownLoop(_, _, _, _)
Uint256_ltDownLoop(self, other, i, result) ==
    IF i < 0 THEN result
    ELSE LET eq == self[i] = other[i]
         IN Uint256_ltDownLoop(self, other, i - 1,
                               (eq /\ result) \/ (~eq /\ self[i] < other[i]))

Uint256_ltDown(self, other) == Uint256_ltDownLoop(self, other, NUM_WORDS - 1, FALSE)

Uint256_lt(self, other) == Uint256_ltLoop(self, other, 0, FALSE)

Uint256_le(self, other) == ~Uint256_lt(other, self)
Uint256_gt(self, other) == Uint256_lt(other, self)
Uint256_ge(self, other) == ~Uint256_lt(self, other)

\* Uint256::reciprocal: one iteration of the extended binary GCD loop over
\* the local variables (x, y, a, b); ok records the loop's assertion
\* (x.value[0] & 1) == 1 of every iteration so far.
Uint256_reciprocalStep(st, halfModulus, modulus) ==
    Let({Let({Let({Let({Let({Let({Let({Let({[x |-> xy.this,
         y |-> Uint256_subtract(xy.other, xy.this, enable).value,
         a |-> ab.this,
         b |-> Uint256_add(bsub.value, modulus, bsub.ret).value,
         ok |-> st.ok /\ (st.x[0] % 2 = 1)]
         : bsub \in {Uint256_subtract(ab.other, ab.this, enable)}})
         : ab \in {Uint256_swap(st.a, b2, doswap)}})
         : xy \in {Uint256_swap(st.x, y1, doswap)}})
         : doswap \in {enable * BoolToInt(Uint256_gt(st.x, y1))}})
         : enable \in {y1[0] % 2}})
         : b2 \in {Uint256_add(Uint256_shiftRight1(st.b, yEven), halfModulus,
                     yEven * (st.b[0] % 2)).value}})
         : y1 \in {Uint256_shiftRight1(st.y, yEven)}})
         : yEven \in {1 - (st.y[0] % 2)}})

\* Uint256::reciprocal: iterations lo .. hi-1 of the loop, in order.  The
\* range is split in halves so that the evaluation nests only
\* logarithmically deep; the steps and their order are the loop's.
RECURSIVE Uint256_reciprocalLoop(_, _, _, _, _)
Uint256_reciprocalLoop(st, halfModulus, modulus, lo, hi) ==
    IF hi <= lo THEN st
    ELSE IF hi = lo + 1 THEN Uint256_reciprocalStep(st, halfModulus, modulus)
    ELSE Let({Uint256_reciprocalLoop(half, halfModulus, modulus, (lo + hi) \div 2, hi)
              : half \in {Uint256_reciprocalLoop(st, halfModulus, modulus, lo, (lo + hi) \div 2)}})

Uint256_reciprocalInit(self, modulus) ==
    [x |-> modulus, y |-> self, a |-> Uint256_ZERO, b |-> Uint256_ONE, ok |-> TRUE]

Uint256_halfModulus(modulus) ==
    Uint256_shiftRight1(Uint256_add(modulus, Uint256_ONE, 1).value, 1)

\* The entry assertion of Uint256::reciprocal (that &modulus != this is a
\* matter of the call sites, which pass distinct objects).
Uint256_reciprocalPre(self, modulus) ==
    (modulus[0] % 2 = 1) /\ Uint256_gt(modulus, Uint256_ONE) /\ Uint256_lt(self, modulus)

\* The assertions in the body of Uint256::reciprocal: x odd at every
\* iteration, and x = 1 or x = modulus after the loop.
Uint256_reciprocalAssert(st, modulus) ==
    st.ok /\ (Uint256_eq(st.x, Uint256_ONE) \/ Uint256_eq(st.x, modulus))

\* Uint256::reciprocal: the value left in *this, and ok = every assertion holds.
Uint256_reciprocalRun(self, modulus) ==
    Let({[value |-> Uint256_replace(self, st.a, BoolToInt(Uint256_ne(self, Uint256_ZERO))),
         ok |-> Uint256_reciprocalPre(self, modulus)
                /\ Uint256_reciprocalAssert(st, modulus)]
         : st \in {Uint256_reciprocalLoop(Uint256_reciprocalInit(self, modulus),
                                Uint256_halfModulus(modulus), modulus,
                                0, NUM_WORDS * WORD_BITS * 2)}})

\* Uint256::reciprocal
Uint256_reciprocal(self, modulus) == Uint256_reciprocalRun(self, modulus).value

(***************************************************************************)
(* FieldInt                                                                *)
(***************************************************************************)
MODULUS == FromInt(2^TotalBits - WordMod - BARRETT_C)

\* The constructor without its conditional subtraction of the modulus.
FieldInt_newUnreduced(val) == val

\* FieldInt::FieldInt(const Uint256 &)
FieldInt_new(val) ==
    Uint256_subtract(val, MODULUS, BoolToInt(Uint256_ge(val, MODULUS))).value

\* FieldInt::add
FieldInt_add(self, other) ==
    Let({Uint256_subtract(c.value, MODULUS,
            IF c.ret = 1 \/ Uint256_ge(c.value, MODULUS) THEN 1 ELSE 0).value
         : c \in {Uint256_add(self, other, 1)}})

\* FieldInt::subtract without adding the modulus back after a borrow.
FieldInt_subtractNoAddBack(self, other) ==
    Uint256_subtract(self, other, 1).value

\* FieldInt::subtract
FieldInt_subtract(self, other) ==
    Let({Uint256_add(b.value, MODULUS, b.ret).value
         : b \in {Uint256_subtract(self, other, 1)}})

\* FieldInt::multiply2
FieldInt_multiply2(self) ==
    Let({Uint256_subtract(c.value, MODULUS,
            IF c.ret = 1 \/ Uint256_ge(c.value, MODULUS) THEN 1 ELSE 0).value
         : c \in {Uint256_shiftLeft1(self)}})

\* borrow = -static_cast<uint32_t>(diff >> 32)
BorrowOf(diff) == (0 - (diff \div WordMod)) % WordMod

\* FieldInt::multiply, long multiplication: the inner loop over j.
RECURSIVE FieldInt_product0Inner(_, _, _, _, _, _)
FieldInt_product0Inner(product0, self, other, i, j, carry) ==
    IF j = NUM_WORDS THEN [product0 EXCEPT ![i + NUM_WORDS] = carry]
    ELSE Let({FieldInt_product0Inner([product0 EXCEPT ![i + j] = sum % WordMod],
                                    self, other, i, j + 1, sum \div WordMod)
              : sum \in {self[i] * other[j] + product0[i + j] + carry}})

\* FieldInt::multiply, long multiplication: the outer loop over i.
RECURSIVE FieldInt_product0Outer(_, _, _, _)
FieldInt_product0Outer(product0, self, other, i) ==
    IF i = NUM_WORDS THEN product0
    ELSE Let({FieldInt_product0Outer(next, self, other, i + 1)
              : next \in {FieldInt_product0Inner(product0, self, other, i, 0, 0)}})

FieldInt_product0(self, other) ==
    FieldInt_product0Outer([i \in 0..(NUM_WORDS * 2 - 1) |-> 0], self, other, 0)

\* FieldInt::multiply, Barrett step: product1 = product0 * floor(2^(2n) / MODULUS),
\* iteration i of the loop.  ok records the assertions carry <= 0x3D3.
FieldInt_product1Step(st, product0, i) ==
    Let({[product |-> [st.product EXCEPT ![i] = sum % WordMod],
         carry |-> sum \div WordMod,
         ok |-> st.ok /\ (sum \div WordMod) <= BARRETT_C + 2]
         : sum \in {st.carry
         + (IF i < NUM_WORDS * 2 THEN product0[i] * BARRETT_C ELSE 0)
         + (IF 1 <= i /\ i < NUM_WORDS * 2 + 1 THEN product0[i - 1] ELSE 0)
         + (IF i >= NUM_WORDS THEN product0[i - NUM_WORDS] ELSE 0)}})

\* Iterations lo .. hi-1, in order (the range is halved to keep the
\* evaluation shallow).
RECURSIVE FieldInt_product1Loop(_, _, _, _)
FieldInt_product1Loop(st, product0, lo, hi) ==
    IF hi = lo + 1 THEN FieldInt_product1Step(st, product0, lo)
    ELSE Let({FieldInt_product1Loop(half, product0, (lo + hi) \div 2, hi)
              : half \in {FieldInt_product1Loop(st, product0, lo, (lo + hi) \div 2)}})

FieldInt_product1(product0) ==
    FieldInt_product1Loop(
        [product |-> [i \in 0..(NUM_WORDS * 3 - 1) |-> 0], carry |-> 0, ok |-> TRUE],
        product0, 0, NUM_WORDS * 3)

\* FieldInt::multiply, Barrett step: product2 = (product1 >> 2n bits) * MODULUS,
\* iteration i of the loop.  ok records the assertions borrow <= 0x3D3.
FieldInt_product2Step(st, product1Shifted, i) ==
    Let({[product |-> [st.product EXCEPT ![i] = diff % WordMod],
         borrow |-> BorrowOf(diff),
         ok |-> st.ok /\ BorrowOf(diff) <= BARRETT_C + 2]
         : diff \in {0 - st.borrow
         - (IF i < NUM_WORDS THEN product1Shifted[i] * BARRETT_C ELSE 0)
         - (IF 1 <= i /\ i < NUM_WORDS + 1 THEN product1Shifted[i - 1] ELSE 0)
         + (IF i >= NUM_WORDS THEN product1Shifted[i - NUM_WORDS] ELSE 0)}})

RECURSIVE FieldInt_product2Loop(_, _, _, _)
FieldInt_product2Loop(st, product1Shifted, lo, hi) ==
    IF hi = lo + 1 THEN FieldInt_product2Step(st, product1Shifted, lo)
    ELSE Let({FieldInt_product2Loop(half, product1Shifted, (lo + hi) \div 2, hi)
              : half \in {FieldInt_product2Loop(st, product1Shifted, lo, (lo + hi) \div 2)}})

\* uint32_t *product1Shifted = &product1[NUM_WORDS * 2]
RECURSIVE FieldInt_product1ShiftedLoop(_, _, _)
FieldInt_product1ShiftedLoop(shifted, product1, i) ==
    IF i = NUM_WORDS THEN shifted
    ELSE FieldInt_product1ShiftedLoop([shifted EXCEPT ![i] = product1[NUM_WORDS * 2 + i]],
                                      product1, i + 1)

\* uint32_t *product1Shifted = &product1[NUM_WORDS]: a shift by half as many
\* bits.
FieldInt_product1ShiftedLow(product1) ==
    [i \in Indices |-> product1[NUM_WORDS + i]]

FieldInt_product1Shifted(product1) ==
    FieldInt_product1ShiftedLoop(Uint256_ZERO, product1, 0)

FieldInt_product2(product1) ==
    FieldInt_product2Loop(
        [product |-> [i \in 0..(NUM_WORDS * 2 - 1) |-> 0], borrow |-> 0, ok |-> TRUE],
        FieldInt_product1Shifted(product1), 0, NUM_WORDS * 2)

\* FieldInt::multiply: difference = product0 - product2 over NUM_WORDS + 1 words.
RECURSIVE FieldInt_differenceLoop(_, _, _, _, _, _)
FieldInt_differenceLoop(difference, product0, product2, i, borrow, ok) ==
    IF i = NUM_WORDS + 1 THEN [difference |-> difference, borrow |-> borrow, ok |-> ok]
    ELSE Let({Let({FieldInt_differenceLoop(next, product0, product2, i + 1, BorrowOf(diff),
                                     ok /\ BorrowOf(diff) <= 1)
              : next \in {[difference EXCEPT ![i] = diff % WordMod]}})
              : diff \in {product0[i] - product2[i] - borrow}})

FieldInt_difference(product0, product2) ==
    FieldInt_differenceLoop([i \in 0..NUM_WORDS |-> 0], product0, product2, 0, 0, TRUE)

\* std::memcpy(this->value, difference, sizeof(value))
RECURSIVE FieldInt_memcpyLoop(_, _, _)
FieldInt_memcpyLoop(value, difference, i) ==
    IF i = NUM_WORDS THEN value
    ELSE FieldInt_memcpyLoop([value EXCEPT ![i] = difference[i]], difference, i + 1)

\* FieldInt::multiply, final conditional subtraction.
FieldInt_reduce(difference) ==
    Let({Uint256_subtract(value, MODULUS,
            IF difference[NUM_WORDS] # 0 \/ Uint256_ge(value, MODULUS) THEN 1 ELSE 0).value
         : value \in {FieldInt_memcpyLoop(Uint256_ZERO, difference, 0)}})

\* FieldInt::multiply
FieldInt_multiply(self, other) ==
    Let({Let({Let({Let({FieldInt_reduce(difference)
         : difference \in {FieldInt_difference(product0, product2).difference}})
         : product2 \in {FieldInt_product2(product1).product}})
         : product1 \in {FieldInt_product1(product0).product}})
         : product0 \in {FieldInt_product0(self, other)}})

\* FieldInt::multiply: TRUE iff every assertion in the body holds
\* (carry <= 0x3D3, carry == 0, borrow <= 0x3D3, borrow == 0, borrow <= 1).
FieldInt_multiplyAsserts(self, other) ==
    Let({Let({Let({Let({r1.ok /\ r1.carry = 0 /\ r2.ok /\ r2.borrow = 0 /\ r3.ok
         : r3 \in {FieldInt_difference(product0, r2.product)}})
         : r2 \in {FieldInt_product2(r1.product)}})
         : r1 \in {FieldInt_product1(product0)}})
         : product0 \in {FieldInt_product0(self, other)}})

\* FieldInt::square
FieldInt_square(self) == FieldInt_multiply(self, self)

\* FieldInt::reciprocal
FieldInt_reciprocal(self) == Uint256_reciprocal(self, MODULUS)

\* FieldInt::replace
FieldInt_replace(self, other, enable) == Uint256_replace(self, other, enable)

(***************************************************************************)
(* CurvePoint: a record [x, y, z] of FieldInt values.                      *)
(***************************************************************************)
FI_ZERO == FromInt(0)
FI_ONE == FromInt(1)
A == FromInt(0)
B == FromInt(5)
ORDER == FromInt(16769953)
CurvePoint_G == [x |-> FromInt(1), y |-> FromInt(5440977), z |-> FI_ONE]
CurvePoint_ZERO == [x |-> FI_ZERO, y |-> FI_ONE, z |-> FI_ZERO]

\* CurvePoint::isZero answering false for every point.
CurvePoint_isZeroNever(self) == FALSE

\* CurvePoint::isZero
CurvePoint_isZero(self) ==
    Uint256_eq(self.x, FI_ZERO) /\ Uint256_ne(self.y, FI_ZERO) /\ Uint256_eq(self.z, FI_ZERO)

\* CurvePoint::operator==
CurvePoint_eq(self, other) ==
    Uint256_eq(self.x, other.x) /\ Uint256_eq(self.y, other.y) /\ Uint256_eq(self.z, other.z)

\* CurvePoint::replace that never copies.
CurvePoint_replaceNever(self, other, enable) == self

\* CurvePoint::replace
CurvePoint_replace(self, other, enable) ==
    [x |-> FieldInt_replace(self.x, other.x, enable),
     y |-> FieldInt_replace(self.y, other.y, enable),
     z |-> FieldInt_replace(self.z, other.z, enable)]

\* CurvePoint::twice.  The locals keep the code's names; x, y, z with a
\* digit are the fields this->x, this->y, this->z after successive
\* in-place operations (w is the code's alias of this->z).
CurvePoint_twice(self) ==
    Let({Let({Let({Let({Let({Let({Let({Let({Let({Let({Let({Let({Let({Let({Let({Let({Let({CurvePoint_replace([x |-> x3, y |-> y2, z |-> z1], CurvePoint_ZERO,
                           BoolToInt(zeroResult))
         : z1 \in {FieldInt_multiply(z0, u)}})
         : z0 \in {FieldInt_square(u)}})
         : x3 \in {FieldInt_multiply(u, w)}})
         : y2 \in {FieldInt_subtract(x2, y1)}})
         : y1 \in {FieldInt_multiply2(FieldInt_square(y0))}})
         : y0 \in {FieldInt_multiply(self.y, u)}})
         : x2 \in {FieldInt_multiply(FieldInt_subtract(v, w), t)}})
         : w \in {FieldInt_subtract(w0, FieldInt_multiply2(v))}})
         : w0 \in {FieldInt_square(t)}})
         : t \in {FieldInt_add(FieldInt_multiply2(x1), x1)}})
         : x1 \in {FieldInt_square(self.x)}})
         : v \in {FieldInt_multiply2(v1)}})
         : v1 \in {FieldInt_multiply(v0, self.y)}})
         : v0 \in {FieldInt_multiply(u, self.x)}})
         : u \in {FieldInt_multiply2(u0)}})
         : u0 \in {FieldInt_multiply(self.y, self.z)}})
         : zeroResult \in {CurvePoint_isZero(self) \/ Uint256_eq(self.y, FI_ZERO)}})

\* CurvePoint::add.  The code reuses this->x, this->y and this->z as the
\* locals t1, t and v; every read of other happens before the storage it
\* would share with this is overwritten, so the operands are taken by value.
\* A local with a digit appended is the same storage after a later
\* in-place operation.
CurvePoint_add(self, other) ==
    Let({Let({Let({Let({Let({Let({Let({Let({Let({Let({Let({Let({Let({Let({Let({Let({Let({Let({Let({Let({Let({Let({Let({Let({Let({Let({Let({Let({CurvePoint_replace([x |-> x1, y |-> y1, z |-> z1], temp,
                           BoolToInt(thisZero \/ otherZero \/ sameX))
         : z1 \in {FieldInt_multiply(v, u3)}})
         : y1 \in {FieldInt_subtract(tb, t0b)}})
         : t0b \in {FieldInt_multiply(t0, u3)}})
         : tb \in {FieldInt_multiply(t, u0c)}})
         : u0c \in {FieldInt_subtract(u0b, w)}})
         : u0b \in {FieldInt_multiply(u0, u2)}})
         : u3 \in {FieldInt_multiply(u, u2)}})
         : x1 \in {FieldInt_multiply(u, w)}})
         : w \in {FieldInt_subtract(w1, u1b)}})
         : u1b \in {FieldInt_multiply(FieldInt_add(u1, u0), u2)}})
         : w1 \in {FieldInt_multiply(w0, v)}})
         : w0 \in {FieldInt_square(t)}})
         : v \in {FieldInt_multiply(self.z, other.z)}})
         : u2 \in {FieldInt_square(u)}})
         : u \in {FieldInt_subtract(u0, u1)}})
         : t \in {FieldInt_subtract(t0, t1)}})
         : temp \in {CurvePoint_replace(temp2, CurvePoint_ZERO,
             BoolToInt(~thisZero /\ ~otherZero /\ sameX /\ ~sameY))}})
         : sameY \in {Uint256_eq(t0, t1)}})
         : sameX \in {Uint256_eq(u0, u1)}})
         : t1 \in {FieldInt_multiply(other.y, self.z)}})
         : t0 \in {FieldInt_multiply(self.y, other.z)}})
         : u1 \in {FieldInt_multiply(other.x, self.z)}})
         : u0 \in {FieldInt_multiply(self.x, other.z)}})
         : temp2 \in {CurvePoint_replace(temp1, other, BoolToInt(thisZero))}})
         : temp1 \in {CurvePoint_replace(temp0, self, BoolToInt(otherZero))}})
         : temp0 \in {CurvePoint_twice(self)}})
         : otherZero \in {CurvePoint_isZero(other)}})
         : thisZero \in {CurvePoint_isZero(self)}})

\* normalize without norm.z.reciprocal(): x and y multiplied by z, not
\* divided.
CurvePoint_normalizeByZ(self) ==
    Let({Let({Let({Let({CurvePoint_replace([x |-> x1, y |-> y1, z |-> self.z],
                           [x |-> nx, y |-> ny, z |-> FI_ONE],
                           BoolToInt(Uint256_ne(self.z, FI_ZERO)))
         : y1 \in {FieldInt_replace(self.y, FI_ONE, BoolToInt(Uint256_ne(self.y, FI_ZERO)))}})
         : x1 \in {FieldInt_replace(self.x, FI_ONE, BoolToInt(Uint256_ne(self.x, FI_ZERO)))}})
         : ny \in {FieldInt_multiply(self.y, self.z)}})
         : nx \in {FieldInt_multiply(self.x, self.z)}})

\* CurvePoint::normalize
CurvePoint_normalize(self) ==
    Let({Let({Let({Let({Let({CurvePoint_replace([x |-> x1, y |-> y1, z |-> self.z],
                           [x |-> nx, y |-> ny, z |-> FI_ONE],
                           BoolToInt(Uint256_ne(self.z, FI_ZERO)))
         : y1 \in {FieldInt_replace(self.y, FI_ONE, BoolToInt(Uint256_ne(self.y, FI_ZERO)))}})
         : x1 \in {FieldInt_replace(self.x, FI_ONE, BoolToInt(Uint256_ne(self.x, FI_ZERO)))}})
         : ny \in {FieldInt_multiply(self.y, nz)}})
         : nx \in {FieldInt_multiply(self.x, nz)}})
         : nz \in {FieldInt_reciprocal(self.z)}})

\* CurvePoint::isOnCurve
CurvePoint_isOnCurve(self) ==
    Let({Let({Let({Let({Uint256_eq(left, right) /\ ~CurvePoint_isZero(self)
         : right \in {FieldInt_add(right1, B)}})
         : right1 \in {FieldInt_multiply(FieldInt_add(right0, A), self.x)}})
         : right0 \in {FieldInt_square(self.x)}})
         : left \in {FieldInt_square(self.y)}})

(***************************************************************************)
(* CurvePoint::add, twice and isOnCurve once more, this time on the        *)
(* objects: memory maps the name of each FieldInt object the functions     *)
(* touch to its value, a call is <<operation, this, other>> on names, and  *)
(* a reference parameter is the name it is bound to, so that two names of  *)
(* one object read and write the same value.                               *)
(***************************************************************************)
FieldIntObjects ==
    {"this.x", "this.y", "this.z", "other.x", "other.y", "other.z",
     "temp.x", "temp.y", "temp.z", "u0", "u1", "t0", "u", "u2", "w",
     "twice.u", "twice.v", "twice.t", "left", "right", "A", "B", "MODULUS"}

\* One call on FieldInt objects: the object this is updated in place.
\* FieldInt::add and FieldInt::subtract hand other on to Uint256::add and
\* Uint256::subtract, whose assertion &other != this is recorded in
\* distinct, and every operation but the assignment adds or subtracts
\* MODULUS.  multiply reads both operands before it writes this->value
\* (FieldInt.cpp lines 96-113 and 197).
FieldInt_call(st, call) ==
    Let({[mem |-> [st.mem EXCEPT ![call[2]] =
                     CASE call[1] = "assign" -> b
                       [] call[1] = "add" -> FieldInt_add(a, b)
                       [] call[1] = "subtract" -> FieldInt_subtract(a, b)
                       [] call[1] = "multiply" -> FieldInt_multiply(a, b)
                       [] call[1] = "multiply2" -> FieldInt_multiply2(a)],
          distinct |-> /\ st.distinct
                       /\ call[1] \in {"add", "subtract"} => call[2] # call[3]
                       /\ call[1] # "assign" => call[2] # "MODULUS"]
         : a \in {st.mem[call[2]]}, b \in {st.mem[call[3]]}})

\* The calls lo .. hi-1 of a sequence, in order (the range is halved to keep
\* the evaluation shallow).
RECURSIVE FieldInt_callsLoop(_, _, _, _)
FieldInt_callsLoop(st, calls, lo, hi) ==
    IF hi = lo + 1 THEN FieldInt_call(st, calls[lo])
    ELSE Let({FieldInt_callsLoop(half, calls, (lo + hi) \div 2, hi)
              : half \in {FieldInt_callsLoop(st, calls, lo, (lo + hi) \div 2)}})

\* The calls from the i-th on, in order.
FieldInt_calls(st, calls, i) == FieldInt_callsLoop(st, calls, i, Len(calls) + 1)

\* FieldInt::square, multiply(*this), as a call.
FieldInt_squareCall(self) == <<"multiply", self, self>>

\* FieldInt::multiply2 as a call.
FieldInt_multiply2Call(self) == <<"multiply2", self, self>>

\* The CurvePoint whose fields are the objects named s.x, s.y, s.z.
CurvePoint_at(mem, s) == [x |-> mem[s.x], y |-> mem[s.y], z |-> mem[s.z]]

\* Assignment of a CurvePoint value to the fields named by s.
CurvePoint_put(st, s, pt) ==
    [mem |-> [st.mem EXCEPT ![s.x] = pt.x, ![s.y] = pt.y, ![s.z] = pt.z],
     distinct |-> st.distinct]

\* CurvePoint::twice, lines 141-179: the calls on the point whose fields
\* are named by s.
CurvePoint_twiceCalls(s) ==
    << <<"assign", "twice.u", s.y>>, <<"multiply", "twice.u", s.z>>,
       FieldInt_multiply2Call("twice.u"),
       <<"assign", "twice.v", "twice.u">>, <<"multiply", "twice.v", s.x>>,
       <<"multiply", "twice.v", s.y>>, FieldInt_multiply2Call("twice.v"),
       FieldInt_squareCall(s.x), <<"assign", "twice.t", s.x>>,
       FieldInt_multiply2Call("twice.t"), <<"add", "twice.t", s.x>>,
       <<"assign", s.z, "twice.t">>, FieldInt_squareCall(s.z),
       <<"assign", s.x, "twice.v">>, FieldInt_multiply2Call(s.x),
       <<"subtract", s.z, s.x>>,
       <<"assign", s.x, "twice.v">>, <<"subtract", s.x, s.z>>,
       <<"multiply", s.x, "twice.t">>, <<"multiply", s.y, "twice.u">>,
       FieldInt_squareCall(s.y), FieldInt_multiply2Call(s.y),
       <<"subtract", s.x, s.y>>, <<"assign", s.y, s.x>>,
       <<"assign", s.x, "twice.u">>, <<"multiply", s.x, s.z>>,
       <<"assign", s.z, "twice.u">>, FieldInt_squareCall(s.z),
       <<"multiply", s.z, "twice.u">> >>

\* CurvePoint::twice on the point whose fields are named by s.
CurvePoint_twiceInPlace(st, s) ==
    Let({Let({CurvePoint_put(done, s,
                  CurvePoint_replace(CurvePoint_at(done.mem, s), CurvePoint_ZERO,
                                     BoolToInt(zeroResult)))
         : done \in {FieldInt_calls(st, CurvePoint_twiceCalls(s), 1)}})
         : zeroResult \in {CurvePoint_isZero(CurvePoint_at(st.mem, s))
                              \/ Uint256_eq(st.mem[s.y], FI_ZERO)}})

\* The fields of *this, and those of the local temp of CurvePoint::add.
ThisFields == [x |-> "this.x", y |-> "this.y", z |-> "this.z"]

TempFields == [x |-> "temp.x", y |-> "temp.y", z |-> "temp.z"]

\* The fields of the parameter other: those of *this when the caller passed
\* the same object.
OtherFields(aliased) ==
    IF aliased THEN ThisFields
    ELSE [x |-> "other.x", y |-> "other.y", z |-> "other.z"]

\* Lines 68-80 with t1 = other.y moved before u1 = other.x: the same for two
\* objects, but with one object u1 would read this->x after t1 overwrote
\* it.
CurvePoint_addCallsFirstEarlyReuse(o) ==
    << <<"assign", "u0", "this.x">>, <<"assign", "t0", "this.y">>,
       <<"assign", "this.x", o.y>>, <<"assign", "u1", o.x>>,
       <<"multiply", "u0", o.z>>, <<"multiply", "u1", "this.z">>,
       <<"multiply", "t0", o.z>>, <<"multiply", "this.x", "this.z">> >>

\* CurvePoint::add, lines 68-80: t1 is a reference to this->x.
CurvePoint_addCallsFirst(o) ==
    << <<"assign", "u0", "this.x">>, <<"assign", "u1", o.x>>,
       <<"assign", "t0", "this.y">>, <<"assign", "this.x", o.y>>,
       <<"multiply", "u0", o.z>>, <<"multiply", "u1", "this.z">>,
       <<"multiply", "t0", o.z>>, <<"multiply", "this.x", "this.z">> >>

\* CurvePoint::add, lines 83-112: t is a reference to this->y, v to this->z,
\* u3 to u1.
CurvePoint_addCallsSecond(o) ==
    << <<"assign", "this.y", "t0">>, <<"subtract", "this.y", "this.x">>,
       <<"assign", "u", "u0">>, <<"subtract", "u", "u1">>,
       <<"assign", "u2", "u">>, FieldInt_squareCall("u2"),
       <<"multiply", "this.z", o.z>>,
       <<"assign", "w", "this.y">>, FieldInt_squareCall("w"),
       <<"multiply", "w", "this.z">>, <<"add", "u1", "u0">>,
       <<"multiply", "u1", "u2">>, <<"subtract", "w", "u1">>,
       <<"assign", "this.x", "u">>, <<"multiply", "this.x", "w">>,
       <<"assign", "u1", "u">>, <<"multiply", "u1", "u2">>,
       <<"multiply", "u0", "u2">>, <<"subtract", "u0", "w">>,
       <<"multiply", "this.y", "u0">>, <<"multiply", "t0", "u1">>,
       <<"subtract", "this.y", "t0">>, <<"multiply", "this.z", "u1">> >>

\* CurvePoint::add on the objects of st, other being bound to the fields o.
CurvePoint_addOnObjects(st, o) ==
    Let({Let({Let({Let({Let({Let({Let({Let({Let({Let({Let({
         CurvePoint_put(st6, ThisFields,
             CurvePoint_replace(CurvePoint_at(st6.mem, ThisFields),
                                CurvePoint_at(st6.mem, TempFields),
                                BoolToInt(thisZero \/ otherZero \/ sameX)))
         : st6 \in {FieldInt_calls(st5, CurvePoint_addCallsSecond(o), 1)}})
         : st5 \in {CurvePoint_put(st4, TempFields,
                 CurvePoint_replace(CurvePoint_at(st4.mem, TempFields), CurvePoint_ZERO,
                     BoolToInt(~thisZero /\ ~otherZero /\ sameX /\ ~sameY)))}})
         : sameY \in {Uint256_eq(st4.mem["t0"], st4.mem["this.x"])}})
         : sameX \in {Uint256_eq(st4.mem["u0"], st4.mem["u1"])}})
         : st4 \in {FieldInt_calls(st3, CurvePoint_addCallsFirst(o), 1)}})
         : st3 \in {CurvePoint_put(st2, TempFields,
                 CurvePoint_replace(CurvePoint_at(st2.mem, TempFields),
                                    CurvePoint_at(st2.mem, o), BoolToInt(thisZero)))}})
         : st2 \in {CurvePoint_put(st1, TempFields,
                 CurvePoint_replace(CurvePoint_at(st1.mem, TempFields),
                                    CurvePoint_at(st1.mem, ThisFields),
                                    BoolToInt(otherZero)))}})
         : st1 \in {CurvePoint_twiceInPlace(st0, TempFields)}})
         : st0 \in {CurvePoint_put(st, TempFields, CurvePoint_at(st.mem, ThisFields))}})
         : otherZero \in {CurvePoint_isZero(CurvePoint_at(st.mem, o))}})
         : thisZero \in {CurvePoint_isZero(CurvePoint_at(st.mem, ThisFields))}})

\* The objects before a call: *this holds self, a separate object other
\* holds other, the static members hold their constants.
ObjectsWith(self, other) ==
    CurvePoint_put(
        CurvePoint_put(
            [mem |-> [o \in FieldIntObjects |->
                         CASE o = "A" -> A
                           [] o = "B" -> B
                           [] o = "MODULUS" -> MODULUS
                           [] OTHER -> FI_ZERO],
             distinct |-> TRUE],
            OtherFields(FALSE), other),
        ThisFields, self)

\* self.add(other) with two objects (aliased = FALSE), and self.add(self)
\* with one (aliased = TRUE; other is not read): the point left in *this,
\* and whether every Uint256::add and Uint256::subtract had two objects.
CurvePoint_addInPlace(self, other, aliased) ==
    Let({[point |-> CurvePoint_at(st.mem, ThisFields), distinct |-> st.distinct]
         : st \in {CurvePoint_addOnObjects(ObjectsWith(self, other), OtherFields(aliased))}})

\* self.twice() on the object.
CurvePoint_twiceOfObject(self) ==
    Let({[point |-> CurvePoint_at(st.mem, ThisFields), distinct |-> st.distinct]
         : st \in {CurvePoint_twiceInPlace(ObjectsWith(self, CurvePoint_ZERO), ThisFields)}})

\* CurvePoint::isOnCurve, lines 266-273, as calls.
CurvePoint_isOnCurveCalls ==
    << <<"assign", "left", "this.y">>, FieldInt_squareCall("left"),
       <<"assign", "right", "this.x">>, FieldInt_squareCall("right"),
       <<"add", "right", "A">>, <<"multiply", "right", "this.x">>,
       <<"add", "right", "B">> >>

\* self.isOnCurve() on the object.
CurvePoint_isOnCurveOfObject(self) ==
    Let({[value |-> Uint256_eq(st.mem["left"], st.mem["right"]) /\ ~CurvePoint_isZero(self),
          distinct |-> st.distinct]
         : st \in {FieldInt_calls(ObjectsWith(self, CurvePoint_ZERO),
                                  CurvePoint_isOnCurveCalls, 1)}})

\* x.multiply(x) on one FieldInt object.
FieldInt_multiplyBySelf(self) ==
    FieldInt_calls(ObjectsWith([x |-> self, y |-> FI_ONE, z |-> FI_ONE], CurvePoint_ZERO),
                   << <<"multiply", "this.x", "this.x">> >>, 1).mem["this.x"]

(***************************************************************************)
(* The header-only CurvePoint of CurvePoint.hpp.  Its calls of              *)
(* FieldInt::replace pass a mask (0xFFFFFFFF or 0), as the replace of       *)
(* Uint256.h takes it.                                                      *)
(***************************************************************************)
\* Uint256.h, replace(other, mask).
Uint256H_replace(self, other, mask) == Uint256_replaceLoop(self, other, mask, 0)

\* FieldInt.hpp, multiply3.
FieldInt_multiply3(self) ==
    Let({FieldInt_add(FieldInt_multiply2(self), copy) : copy \in {self}})

\* CurvePoint.hpp, replace.
CurvePointHpp_replace(self, other, enable) ==
    Let({[x |-> Uint256H_replace(self.x, other.x, mask),
          y |-> Uint256H_replace(self.y, other.y, mask),
          z |-> Uint256H_replace(self.z, other.z, mask)]
         : mask \in {Mask(enable)}})

\* CurvePoint.hpp, twice.
CurvePointHpp_twice(self) ==
    Let({Let({Let({Let({Let({Let({Let({Let({Let({Let({Let({Let({Let({
         CurvePointHpp_replace([x |-> x1, y |-> u1, z |-> z1], CurvePoint_ZERO,
                               BoolToInt(zeroResult))
         : u1 \in {FieldInt_subtract(FieldInt_multiply(u, t1), s2b)}})
         : t1 \in {FieldInt_subtract(t, v)}})
         : s2b \in {FieldInt_multiply2(FieldInt_multiply(s2, y1))}})
         : y1 \in {FieldInt_square(self.y)}})
         : z1 \in {FieldInt_multiply(s2, s)}})
         : s2 \in {FieldInt_square(s)}})
         : x1 \in {FieldInt_multiply(v, s)}})
         : v \in {FieldInt_subtract(FieldInt_square(u), t2)}})
         : u \in {FieldInt_multiply3(FieldInt_square(self.x))}})
         : t2 \in {FieldInt_multiply2(t)}})
         : t \in {FieldInt_multiply2(FieldInt_multiply(FieldInt_multiply(s, self.y), self.x))}})
         : s \in {FieldInt_multiply2(FieldInt_multiply(self.z, self.y))}})
         : zeroResult \in {CurvePoint_isZero(self) \/ Uint256_eq(self.y, FI_ZERO)}})

\* CurvePoint.hpp, add.  this1, this2 are *this after the first and the
\* second replace; a local with a letter appended is the same storage after
\* a later in-place operation.
CurvePointHpp_add(self, other) ==
    Let({Let({Let({Let({Let({Let({Let({Let({Let({Let({Let({Let({Let({Let({Let({Let({Let({Let({Let({Let({Let({Let({Let({Let({Let({
         CurvePointHpp_replace(this2, twiced, BoolToInt(cond /\ sameX))
         : this2 \in {CurvePointHpp_replace([x |-> x1, y |-> y1, z |-> z1], CurvePoint_ZERO,
                                            BoolToInt(cond /\ ~sameX))}})
         : cond \in {~thisZero /\ ~otherZero /\ sameY}})
         : y1 \in {Uint256H_replace(this1.y, u0c, assign)}})
         : u0c \in {FieldInt_subtract(u0b, FieldInt_multiply(v0, u3))}})
         : u0b \in {FieldInt_multiply(FieldInt_subtract(FieldInt_multiply(u0, u2), t), v)}})
         : z1 \in {Uint256H_replace(this1.z, FieldInt_multiply(w, u3), assign)}})
         : x1 \in {Uint256H_replace(this1.x, FieldInt_multiply(u, t), assign)}})
         : assign \in {Mask(BoolToInt(~thisZero /\ ~otherZero /\ ~sameY))}})
         : t \in {FieldInt_subtract(FieldInt_multiply(FieldInt_square(v), w), u1b)}})
         : u1b \in {FieldInt_multiply(FieldInt_add(u1, u0), u2)}})
         : u3 \in {FieldInt_multiply(u2, u)}})
         : u2 \in {FieldInt_square(u)}})
         : w \in {FieldInt_multiply(this1.z, other.z)}})
         : v \in {FieldInt_subtract(v0, v1)}})
         : u \in {FieldInt_subtract(u0, u1)}})
         : twiced \in {CurvePointHpp_twice(this1)}})
         : sameY \in {Uint256_eq(v0, v1)}})
         : sameX \in {Uint256_eq(u0, u1)}})
         : v1 \in {FieldInt_multiply(other.y, this1.z)}})
         : v0 \in {FieldInt_multiply(this1.y, other.z)}})
         : u1 \in {FieldInt_multiply(other.x, this1.z)}})
         : u0 \in {FieldInt_multiply(this1.x, other.z)}})
         : this1 \in {CurvePointHpp_replace(self, other, BoolToInt(thisZero))}})
         : otherZero \in {CurvePoint_isZero(other)}})
         : thisZero \in {CurvePoint_isZero(self)}})

\* CurvePoint::multiply, the precomputed table [this*0, this*1, ..., this*15]:
\* iterations lo .. hi-1 of table[i] = table[i - 1]; table[i].add(*this).
RECURSIVE CurvePoint_tableLoop(_, _, _, _)
CurvePoint_tableLoop(table, self, lo, hi) ==
    IF hi <= lo THEN table
    ELSE IF hi = lo + 1
    THEN Let({[table EXCEPT ![lo] = sum]
              : sum \in {CurvePoint_add(table[lo - 1], self)}})
    ELSE Let({CurvePoint_tableLoop(half, self, (lo + hi) \div 2, hi)
              : half \in {CurvePoint_tableLoop(table, self, lo, (lo + hi) \div 2)}})

CurvePoint_table(self) ==
    Let({Let({CurvePoint_tableLoop(init, self, 3, 2^TABLE_BITS)
         : init \in {[[j \in 0..(2^TABLE_BITS - 1) |-> CurvePoint_ZERO]
             EXCEPT ![1] = self, ![2] = twice]}})
         : twice \in {CurvePoint_twice(self)}})

\* CurvePoint::multiply, the constant-time scan q.replace(table[j], j == inc)
\* for j = lo .. hi-1.
RECURSIVE CurvePoint_select(_, _, _, _, _)
CurvePoint_select(q, table, inc, lo, hi) ==
    IF hi <= lo THEN q
    ELSE IF hi = lo + 1 THEN CurvePoint_replace(q, table[lo], BoolToInt(lo = inc))
    ELSE Let({CurvePoint_select(half, table, inc, (lo + hi) \div 2, hi)
              : half \in {CurvePoint_select(q, table, inc, lo, (lo + hi) \div 2)}})

\* CurvePoint::multiply, the tableBits doublings between two windows.
RECURSIVE CurvePoint_twiceTimes(_, _)
CurvePoint_twiceTimes(self, j) ==
    IF j = TABLE_BITS THEN self
    ELSE Let({CurvePoint_twiceTimes(next, j + 1)
              : next \in {CurvePoint_twice(self)}})

\* The window without the shift by i & 31: the low bits of the word.
CurvePoint_windowLow(n, i) ==
    n[i \div WORD_BITS] % (2^TABLE_BITS)

\* (n.value[i >> 5] >> (i & 31)) & (tableLen - 1)
CurvePoint_window(n, i) ==
    (n[i \div WORD_BITS] \div (2^(i % WORD_BITS))) % (2^TABLE_BITS)

\* CurvePoint::multiply, one iteration of the loop over the windows of n.
CurvePoint_multiplyStep(self, table, n, i) ==
    Let({Let({IF i # 0 THEN CurvePoint_twiceTimes(sum, 0) ELSE sum
         : sum \in {CurvePoint_add(self, q)}})
         : q \in {CurvePoint_select(CurvePoint_ZERO, table, CurvePoint_window(n, i), 0, 2^TABLE_BITS)}})

\* CurvePoint::multiply, windows number hi-1 down to lo (window w holds the
\* bits w*tableBits .. w*tableBits+3 of n), most significant first.
RECURSIVE CurvePoint_multiplyLoop(_, _, _, _, _)
CurvePoint_multiplyLoop(self, table, n, lo, hi) ==
    IF hi <= lo THEN self
    ELSE IF hi = lo + 1 THEN CurvePoint_multiplyStep(self, table, n, lo * TABLE_BITS)
    ELSE Let({CurvePoint_multiplyLoop(half, table, n, lo, (lo + hi) \div 2)
              : half \in {CurvePoint_multiplyLoop(self, table, n, (lo + hi) \div 2, hi)}})

\* CurvePoint::multiply
CurvePoint_multiply(self, n) ==
    Let({CurvePoint_multiplyLoop(CurvePoint_ZERO, table, n, 0,
                                (NUM_WORDS * WORD_BITS) \div TABLE_BITS)
         : table \in {CurvePoint_table(self)}})

(***************************************************************************)
(* CurvePoint::multiply and Uint256::reciprocal once more, this time       *)
(* together with the sequence of the member functions they call, in call   *)
(* order (the calls the code brackets with countOps).  The calls inside    *)
(* assertions are left out: a build with NDEBUG does not make them.        *)
(***************************************************************************)
\* CurvePoint::multiply, the loop filling table[i .. tableLen-1].
RECURSIVE CurvePoint_tableLoopTraced(_, _, _)
CurvePoint_tableLoopTraced(st, self, i) ==
    IF i = 2^TABLE_BITS THEN st
    ELSE Let({CurvePoint_tableLoopTraced(
                  [table |-> [st.table EXCEPT ![i] = sum], ops |-> Append(st.ops, "add")],
                  self, i + 1)
              : sum \in {CurvePoint_add(st.table[i - 1], self)}})

\* CurvePoint::multiply, the table and the calls made to build it.
CurvePoint_tableTraced(self) ==
    Let({CurvePoint_tableLoopTraced(
             [table |-> [[j \in 0..(2^TABLE_BITS - 1) |-> CurvePoint_ZERO]
                            EXCEPT ![1] = self, ![2] = twice],
              ops |-> <<"twice">>],
             self, 3)
         : twice \in {CurvePoint_twice(self)}})

\* CurvePoint::multiply, the scan q.replace(table[j], j == inc) from j on.
RECURSIVE CurvePoint_selectTraced(_, _, _, _)
CurvePoint_selectTraced(st, table, inc, j) ==
    IF j = 2^TABLE_BITS THEN st
    ELSE Let({CurvePoint_selectTraced(
                  [q |-> q, ops |-> Append(st.ops, "replace")], table, inc, j + 1)
              : q \in {CurvePoint_replace(st.q, table[j], BoolToInt(j = inc))}})

\* CurvePoint::multiply, the doublings j .. tableBits-1 between two windows.
RECURSIVE CurvePoint_twiceTimesTraced(_, _)
CurvePoint_twiceTimesTraced(st, j) ==
    IF j = TABLE_BITS THEN st
    ELSE Let({CurvePoint_twiceTimesTraced(
                  [p |-> next, ops |-> Append(st.ops, "twice")], j + 1)
              : next \in {CurvePoint_twice(st.p)}})

\* The loop body with a shortcut the code does not take: no add for a
\* window that is zero.
CurvePoint_multiplyStepSkipZero(st, table, n, i) ==
    Let({Let({Let({IF i # 0 THEN CurvePoint_twiceTimesTraced(added, 0) ELSE added
         : added \in {IF inc = 0 THEN [p |-> st.p, ops |-> sel.ops]
                      ELSE [p |-> CurvePoint_add(st.p, sel.q),
                            ops |-> Append(sel.ops, "add")]}})
         : sel \in {CurvePoint_selectTraced([q |-> CurvePoint_ZERO, ops |-> st.ops],
                                            table, inc, 0)}})
         : inc \in {CurvePoint_window(n, i)}})

\* CurvePoint::multiply, one iteration of the loop over the windows of n.
CurvePoint_multiplyStepTraced(st, table, n, i) ==
    Let({Let({Let({IF i # 0 THEN CurvePoint_twiceTimesTraced(added, 0) ELSE added
         : added \in {[p |-> CurvePoint_add(st.p, sel.q),
                       ops |-> Append(sel.ops, "add")]}})
         : sel \in {CurvePoint_selectTraced([q |-> CurvePoint_ZERO, ops |-> st.ops],
                                            table, inc, 0)}})
         : inc \in {CurvePoint_window(n, i)}})

\* CurvePoint::multiply, the loop for (i = ...; i >= 0; i -= tableBits).
RECURSIVE CurvePoint_multiplyLoopTraced(_, _, _, _)
CurvePoint_multiplyLoopTraced(st, table, n, i) ==
    IF i < 0 THEN st
    ELSE Let({CurvePoint_multiplyLoopTraced(next, table, n, i - TABLE_BITS)
              : next \in {CurvePoint_multiplyStepTraced(st, table, n, i)}})

\* CurvePoint::multiply: the point left in *this and the calls made.
CurvePoint_multiplyTraced(self, n) ==
    Let({CurvePoint_multiplyLoopTraced([p |-> CurvePoint_ZERO, ops |-> tab.ops],
                                       tab.table, n, NUM_WORDS * WORD_BITS - TABLE_BITS)
         : tab \in {CurvePoint_tableTraced(self)}})

\* Uint256::reciprocal, the calls of one iteration of its loop; "loop"
\* marks the start of the iteration.
Uint256_reciprocalStepOps ==
    <<"loop", "shiftRight1", "shiftRight1", "add", ">", "swap", "subtract", "swap",
      "subtract", "add">>

\* Uint256::reciprocal, iterations lo .. hi-1 of the loop (split in halves
\* as in Uint256_reciprocalLoop).
RECURSIVE Uint256_reciprocalLoopTraced(_, _, _, _, _)
Uint256_reciprocalLoopTraced(st, halfModulus, modulus, lo, hi) ==
    IF hi <= lo THEN st
    ELSE IF hi = lo + 1
    THEN Let({[vars |-> next, ops |-> st.ops \o Uint256_reciprocalStepOps]
              : next \in {Uint256_reciprocalStep(st.vars, halfModulus, modulus)}})
    ELSE Let({Uint256_reciprocalLoopTraced(half, halfModulus, modulus, (lo + hi) \div 2, hi)
              : half \in {Uint256_reciprocalLoopTraced(st, halfModulus, modulus,
                                                       lo, (lo + hi) \div 2)}})

\* Uint256::reciprocal: the value left in *this and the calls made.
Uint256_reciprocalTraced(self, modulus) ==
    Let({[value |-> Uint256_replace(self, st.vars.a,
                                    BoolToInt(Uint256_ne(self, Uint256_ZERO))),
          ops |-> st.ops \o <<"!=", "replace">>]
         : st \in {Uint256_reciprocalLoopTraced(
                       [vars |-> Uint256_reciprocalInit(self, modulus),
                        ops |-> <<"add", "shiftRight1">>],
                       Uint256_halfModulus(modulus), modulus,
                       0, NUM_WORDS * WORD_BITS * 2)}})

\* Utils::storeBigUint32: the bytes of one word, most significant first
\* (a word has WORD_BITS / 8 bytes).
Utils_storeBigUint32(x) ==
    [j \in 0..(WORD_BITS \div 8 - 1) |-> (x \div 2^(WORD_BITS - 8 * (j + 1))) % 256]

\* Uint256::getBigEndianBytes storing the words in the order of value[].
Uint256_getLittleEndianBytes(self) ==
    [k \in 0..(NUM_WORDS * (WORD_BITS \div 8) - 1) |->
        Utils_storeBigUint32(self[k \div (WORD_BITS \div 8)])[k % (WORD_BITS \div 8)]]

\* Uint256::getBigEndianBytes: word i goes to b[(NUM_WORDS - 1 - i) * 4 ..].
Uint256_getBigEndianBytes(self) ==
    [k \in 0..(NUM_WORDS * (WORD_BITS \div 8) - 1) |->
        Utils_storeBigUint32(self[NUM_WORDS - 1 - (k \div (WORD_BITS \div 8))])
            [k % (WORD_BITS \div 8)]]

\* CurvePoint::toCompressedPoint: output[0] = (y.value[0] & 1) + 0x02, and
\* x.getBigEndianBytes(&output[1]).
CurvePoint_toCompressedPoint(self) ==
    Let({[k \in 0..(NUM_WORDS * (WORD_BITS \div 8)) |->
             IF k = 0 THEN (self.y[0] % 2) + 2 ELSE xBytes[k - 1]]
         : xBytes \in {Uint256_getBigEndianBytes(self.x)}})

(***************************************************************************)
(* SHA-256 at its full width.  A uint32_t is the pair <<high 16 bits, low   *)
(* 16 bits>>, so that no intermediate value leaves the range of the        *)
(* integers the checker has; a byte array is a sequence of numbers in      *)
(* 0..255 (index 1 is the C index 0).                                      *)
(***************************************************************************)
\* The truth table of & on 4 bits: And4[a + 1][b + 1] = a & b.
And4 ==
    <<<<0, 0, 0, 0, 0, 0, 0, 0, 0, 0, 0, 0, 0, 0, 0, 0>>,
      <<0, 1, 0, 1, 0, 1, 0, 1, 0, 1, 0, 1, 0, 1, 0, 1>>,
      <<0, 0, 2, 2, 0, 0, 2, 2, 0, 0, 2, 2, 0, 0, 2, 2>>,
      <<0, 1, 2, 3, 0, 1, 2, 3, 0, 1, 2, 3, 0, 1, 2, 3>>,
      <<0, 0, 0, 0, 4, 4, 4, 4, 0, 0, 0, 0, 4, 4, 4, 4>>,
      <<0, 1, 0, 1, 4, 5, 4, 5, 0, 1, 0, 1, 4, 5, 4, 5>>,
      <<0, 0, 2, 2, 4, 4, 6, 6, 0, 0, 2, 2, 4, 4, 6, 6>>,
      <<0, 1, 2, 3, 4, 5, 6, 7, 0, 1, 2, 3, 4, 5, 6, 7>>,
      <<0, 0, 0, 0, 0, 0, 0, 0, 8, 8, 8, 8, 8, 8, 8, 8>>,
      <<0, 1, 0, 1, 0, 1, 0, 1, 8, 9, 8, 9, 8, 9, 8, 9>>,
      <<0, 0, 2, 2, 0, 0, 2, 2, 8, 8, 10, 10, 8, 8, 10, 10>>,
      <<0, 1, 2, 3, 0, 1, 2, 3, 8, 9, 10, 11, 8, 9, 10, 11>>,
      <<0, 0, 0, 0, 4, 4, 4, 4, 8, 8, 8, 8, 12, 12, 12, 12>>,
      <<0, 1, 0, 1, 4, 5, 4, 5, 8, 9, 8, 9, 12, 13, 12, 13>>,
      <<0, 0, 2, 2, 4, 4, 6, 6, 8, 8, 10, 10, 12, 12, 14, 14>>,
      <<0, 1, 2, 3, 4, 5, 6, 7, 8, 9, 10, 11, 12, 13, 14, 15>>>>

\* & | ^ on 16 bits.
And16(a, b) ==
    And4[(a % 16) + 1][(b % 16) + 1]
    + 16 * And4[((a \div 16) % 16) + 1][((b \div 16) % 16) + 1]
    + 256 * And4[((a \div 256) % 16) + 1][((b \div 256) % 16) + 1]
    + 4096 * And4[(a \div 4096) + 1][(b \div 4096) + 1]

\* x & y, x | y, x ^ y, x + y and x >> i on uint32_t.
U32_and(x, y) == <<And16(x[1], y[1]), And16(x[2], y[2])>>
U32_or(x, y) == <<x[1] + y[1] - And16(x[1], y[1]), x[2] + y[2] - And16(x[2], y[2])>>
U32_xor(x, y) == <<x[1] + y[1] - 2 * And16(x[1], y[1]), x[2] + y[2] - 2 * And16(x[2], y[2])>>
U32_add(x, y) == <<(x[1] + y[1] + (x[2] + y[2]) \div 65536) % 65536, (x[2] + y[2]) % 65536>>
U32_shr(x, i) ==
    IF i >= 16 THEN <<0, x[1] \div 2^(i - 16)>>
    ELSE <<x[1] \div 2^i, x[2] \div 2^i + (x[1] % 2^i) * 2^(16 - i)>>

\* The uint32_t whose big-endian bytes are b0 b1 b2 b3.
U32_fromBytes(b0, b1, b2, b3) == <<b0 * 256 + b1, b2 * 256 + b3>>

\* Byte k (0 the most significant) of a uint32_t: x >> ((3 - k) << 3).
U32_byte(x, k) ==
    CASE k = 0 -> x[1] \div 256
      [] k = 1 -> x[1] % 256
      [] k = 2 -> x[2] \div 256
      [] k = 3 -> x[2] % 256

\* ROTR32(x, i) = (x << (32 - i)) | (x >> i), for 0 < i < 32.
Sha256_ROTR32(x, i) ==
    IF i >= 16
    THEN <<x[2] \div 2^(i - 16) + (x[1] % 2^(i - 16)) * 2^(32 - i),
           x[1] \div 2^(i - 16) + (x[2] % 2^(i - 16)) * 2^(32 - i)>>
    ELSE <<x[1] \div 2^i + (x[2] % 2^i) * 2^(16 - i),
           x[2] \div 2^i + (x[1] % 2^i) * 2^(16 - i)>>

SHA256_BLOCK_LEN == 64
SHA256_HASH_LEN == 32

Sha256_INITIAL_STATE ==
    <<<<27145, 58983>>, <<47975, 44677>>, <<15470, 62322>>, <<42319, 62778>>,
      <<20750, 21119>>, <<39685, 26764>>, <<8067, 55723>>, <<23520, 52505>>>>

Sha256_ROUND_CONSTANTS ==
    <<<<17034, 12184>>, <<28983, 17553>>, <<46528, 64463>>, <<59829, 56229>>,
      <<14678, 49755>>, <<23025, 4593>>, <<37439, 33444>>, <<43804, 24277>>,
      <<55303, 43672>>, <<4739, 23297>>, <<9265, 34238>>, <<21772, 32195>>,
      <<29374, 23924>>, <<32990, 45566>>, <<39900, 1703>>, <<49563, 61812>>,
      <<58523, 27073>>, <<61374, 18310>>, <<4033, 40390>>, <<9228, 41420>>,
      <<11753, 11375>>, <<19060, 33962>>, <<23728, 43484>>, <<30457, 35034>>,
      <<38974, 20818>>, <<43057, 50797>>, <<45059, 10184>>, <<48985, 32711>>,
      <<50912, 3059>>, <<54695, 37191>>, <<1738, 25425>>, <<5161, 10599>>,
      <<10167, 2693>>, <<11803, 8504>>, <<19756, 28156>>, <<21304, 3347>>,
      <<25866, 29524>>, <<30314, 2747>>, <<33218, 51502>>, <<37490, 11397>>,
      <<41663, 59553>>, <<43034, 26187>>, <<49739, 35696>>, <<51052, 20899>>,
      <<53650, 59417>>, <<54937, 1572>>, <<62478, 13701>>, <<4202, 41072>>,
      <<6564, 49430>>, <<7735, 27656>>, <<10056, 30540>>, <<13488, 48309>>,
      <<14620, 3251>>, <<20184, 43594>>, <<23452, 51791>>, <<26670, 28659>>,
      <<29839, 33518>>, <<30885, 25455>>, <<33992, 30740>>, <<36039, 520>>,
      <<37054, 65530>>, <<42064, 27883>>, <<48889, 41975>>, <<50801, 30962>>>>

\* Sha256::compress, one pass of the loop "for (j = 16; j < 64; j++)"
\* extending the message schedule.
Sha256_scheduleStep(schedule, j) ==
    Append(schedule,
        U32_add(U32_add(schedule[j - 16 + 1], schedule[j - 7 + 1]),
            U32_add(U32_xor(U32_xor(Sha256_ROTR32(schedule[j - 15 + 1], 7),
                                    Sha256_ROTR32(schedule[j - 15 + 1], 18)),
                            U32_shr(schedule[j - 15 + 1], 3)),
                    U32_xor(U32_xor(Sha256_ROTR32(schedule[j - 2 + 1], 17),
                                    Sha256_ROTR32(schedule[j - 2 + 1], 19)),
                            U32_shr(schedule[j - 2 + 1], 10)))))

\* The passes j .. j + n - 1 of that loop (the first half of them, then the
\* rest, which keeps the evaluation shallow).
RECURSIVE Sha256_scheduleLoop(_, _, _)
Sha256_scheduleLoop(schedule, j, n) ==
    IF n = 1 THEN Sha256_scheduleStep(schedule, j)
    ELSE Let({Sha256_scheduleLoop(half, j + n \div 2, n - n \div 2)
              : half \in {Sha256_scheduleLoop(schedule, j, n \div 2)}})

\* Sha256::compress, the message schedule of the block at blocks[i ..].
Sha256_schedule(blocks, i) ==
    Let({Sha256_scheduleLoop(first, 16, 48)
         : first \in {[j \in 1..16 |->
                U32_fromBytes(blocks[i + 4 * (j - 1) + 1], blocks[i + 4 * (j - 1) + 2],
                              blocks[i + 4 * (j - 1) + 3], blocks[i + 4 * (j - 1) + 4])]}})

\* Sha256::compress, round j on v = <<a, b, c, d, e, f, g, h>>.
Sha256_round(v, schedule, j) ==
    Let({Let({<<U32_add(t1, t2), v[1], v[2], v[3], U32_add(v[4], t1), v[5], v[6], v[7]>>
         : t2 \in {U32_add(U32_xor(U32_xor(Sha256_ROTR32(v[1], 2), Sha256_ROTR32(v[1], 13)),
                                   Sha256_ROTR32(v[1], 22)),
                           U32_or(U32_and(v[1], U32_or(v[2], v[3])), U32_and(v[2], v[3])))}})
         : t1 \in {U32_add(U32_add(U32_add(U32_add(v[8],
                       U32_xor(U32_xor(Sha256_ROTR32(v[5], 6), Sha256_ROTR32(v[5], 11)),
                               Sha256_ROTR32(v[5], 25))),
                       U32_xor(v[7], U32_and(v[5], U32_xor(v[6], v[7])))),
                       Sha256_ROUND_CONSTANTS[j + 1]), schedule[j + 1])}})

\* The rounds j .. j + n - 1 (the first half of them, then the rest).
RECURSIVE Sha256_rounds(_, _, _, _)
Sha256_rounds(v, schedule, j, n) ==
    IF n = 1 THEN Sha256_round(v, schedule, j)
    ELSE Let({Sha256_rounds(half, schedule, j + n \div 2, n - n \div 2)
              : half \in {Sha256_rounds(v, schedule, j, n \div 2)}})

\* Sha256::compress(state, blocks, len), from the block at blocks[i ..] on.
RECURSIVE Sha256_compressFrom(_, _, _, _)
Sha256_compressFrom(state, blocks, len, i) ==
    IF i >= len THEN state
    ELSE Let({Let({Sha256_compressFrom(<<U32_add(state[1], v[1]), U32_add(state[2], v[2]),
                                         U32_add(state[3], v[3]), U32_add(state[4], v[4]),
                                         U32_add(state[5], v[5]), U32_add(state[6], v[6]),
                                         U32_add(state[7], v[7]), U32_add(state[8], v[8])>>,
                                       blocks, len, i + 64)
         : v \in {Sha256_rounds(state, schedule, 0, 64)}})
         : schedule \in {Sha256_schedule(blocks, i)}})

Sha256_compress(state, blocks, len) == Sha256_compressFrom(state, blocks, len, 0)

\* x >> s on a uint64_t that is below 2^31.
U64_shr(x, s) == IF s >= 31 THEN 0 ELSE x \div 2^s

\* n zero bytes.
RECURSIVE Zeros(_)
Zeros(n) == IF n = 0 THEN <<>> ELSE Append(Zeros(n - 1), 0)

\* The bytes of the eight state words, big endian:
\* result[i] = state[i >> 2] >> ((3 - (i & 3)) << 3).
Sha256_result(state) ==
    [i \in 1..SHA256_HASH_LEN |-> U32_byte(state[((i - 1) \div 4) + 1], (i - 1) % 4)]

\* The block with the 64-bit length in its last 8 bytes:
\* block[SHA256_BLOCK_LEN - 1 - i] = length >> (i << 3), i = 0 .. 7.
Sha256_withLength(block, length) ==
    [k \in 1..SHA256_BLOCK_LEN |->
        IF k > SHA256_BLOCK_LEN - 8 THEN U64_shr(length, 8 * (SHA256_BLOCK_LEN - k)) % 256
        ELSE block[k]]

\* Sha256::getHash(msg, len, initState, prefixLen), the private one-shot
\* function: whole blocks, then the final block or two with the padding.
Sha256_getHashFrom(msg, initState, prefixLen) ==
    Let({Let({Let({Let({Let({
        Sha256_result(Sha256_compress(state2, Sha256_withLength(block2, (Len(msg) + prefixLen) * 8),
                                      SHA256_BLOCK_LEN))
         : block2 \in {IF (Len(msg) % SHA256_BLOCK_LEN) + 1 + 8 > SHA256_BLOCK_LEN
                       THEN Zeros(SHA256_BLOCK_LEN) ELSE block}})
         : state2 \in {IF (Len(msg) % SHA256_BLOCK_LEN) + 1 + 8 > SHA256_BLOCK_LEN
                       THEN Sha256_compress(state, block, SHA256_BLOCK_LEN) ELSE state}})
         : block \in {[k \in 1..SHA256_BLOCK_LEN |->
                         IF k <= Len(msg) - off THEN msg[off + k]
                         ELSE IF k = (Len(msg) % SHA256_BLOCK_LEN) + 1 THEN 128 ELSE 0]}})
         : state \in {Sha256_compress(initState, msg, off)}})
         : off \in {Len(msg) - (Len(msg) % SHA256_BLOCK_LEN)}})

\* Sha256::getHash(msg, len)
Sha256_getHash(msg) == Sha256_getHashFrom(msg, Sha256_INITIAL_STATE, 0)

\* Sha256::getDoubleHash
Sha256_getDoubleHash(msg) == Sha256_getHash(Sha256_getHash(msg))

(***************************************************************************)
(* The stateful hasher: the fields state, length, buffer, bufferLen, and   *)
(* (not a field of the class) fed, the bytes of the blocks handed to       *)
(* compress so far, in order.                                              *)
(***************************************************************************)
\* x ^ y on bytes.
U8_xor(x, y) == x + y - 2 * And16(x, y)

\* Sha256::getHmac(key, keyLen, msg, msgLen), with ^= 0x5C for the second
\* pass over tempKey.
Sha256_getHmacSamePad(key, msg) ==
    Let({Let({Let({Let({Let({Let({
        Sha256_getHashFrom(innerHash, outerState, SHA256_BLOCK_LEN)
         : outerState \in {Sha256_compress(Sha256_INITIAL_STATE, outerKey, SHA256_BLOCK_LEN)}})
         : outerKey \in {[i \in 1..SHA256_BLOCK_LEN |-> U8_xor(innerKey[i], 92)]}})
         : innerHash \in {Sha256_getHashFrom(msg, innerState, SHA256_BLOCK_LEN)}})
         : innerState \in {Sha256_compress(Sha256_INITIAL_STATE, innerKey, SHA256_BLOCK_LEN)}})
         : innerKey \in {[i \in 1..SHA256_BLOCK_LEN |-> U8_xor(tempKey[i], 54)]}})
         : tempKey \in {IF Len(key) <= SHA256_BLOCK_LEN
                        THEN [i \in 1..SHA256_BLOCK_LEN |-> IF i <= Len(key) THEN key[i] ELSE 0]
                        ELSE Let({[i \in 1..SHA256_BLOCK_LEN |->
                                      IF i <= SHA256_HASH_LEN THEN keyHash[i] ELSE 0]
                                  : keyHash \in {Sha256_getHash(key)}})}})

\* Sha256::getHmac(key, keyLen, msg, msgLen): the key, or its hash if it is
\* longer than a block, padded with zeros to a block; the inner hash runs
\* from the state after the block tempKey ^ 0x36, the outer hash from the
\* state after the block tempKey ^ 0x36 ^ (0x36 ^ 0x5C).
Sha256_getHmac(key, msg) ==
    Let({Let({Let({Let({Let({Let({
        Sha256_getHashFrom(innerHash, outerState, SHA256_BLOCK_LEN)
         : outerState \in {Sha256_compress(Sha256_INITIAL_STATE, outerKey, SHA256_BLOCK_LEN)}})
         : outerKey \in {[i \in 1..SHA256_BLOCK_LEN |-> U8_xor(innerKey[i], U8_xor(54, 92))]}})
         : innerHash \in {Sha256_getHashFrom(msg, innerState, SHA256_BLOCK_LEN)}})
         : innerState \in {Sha256_compress(Sha256_INITIAL_STATE, innerKey, SHA256_BLOCK_LEN)}})
         : innerKey \in {[i \in 1..SHA256_BLOCK_LEN |-> U8_xor(tempKey[i], 54)]}})
         : tempKey \in {IF Len(key) <= SHA256_BLOCK_LEN
                        THEN [i \in 1..SHA256_BLOCK_LEN |-> IF i <= Len(key) THEN key[i] ELSE 0]
                        ELSE Let({[i \in 1..SHA256_BLOCK_LEN |->
                                      IF i <= SHA256_HASH_LEN THEN keyHash[i] ELSE 0]
                                  : keyHash \in {Sha256_getHash(key)}})}})

\* Sha256::Sha256()
Sha256_new ==
    [state |-> Sha256_INITIAL_STATE, length |-> 0, buffer |-> Zeros(SHA256_BLOCK_LEN),
     bufferLen |-> 0, fed |-> <<>>]

\* Sha256::append, one pass of the loop: the byte goes to buffer[bufferLen],
\* and a full buffer is compressed.
Sha256_appendByte(self, byte) ==
    Let({IF self.bufferLen + 1 = SHA256_BLOCK_LEN
         THEN [state |-> Sha256_compress(self.state, buffer, SHA256_BLOCK_LEN),
               length |-> self.length, buffer |-> buffer, bufferLen |-> 0,
               fed |-> self.fed \o buffer]
         ELSE [state |-> self.state, length |-> self.length, buffer |-> buffer,
               bufferLen |-> self.bufferLen + 1, fed |-> self.fed]
         : buffer \in {[self.buffer EXCEPT ![self.bufferLen + 1] = byte]}})

\* Sha256::append, the passes i .. i + n - 1 of the loop (the first half,
\* then the rest).
RECURSIVE Sha256_appendLoop(_, _, _, _)
Sha256_appendLoop(self, bytes, i, n) ==
    IF n = 0 THEN self
    ELSE IF n = 1 THEN Sha256_appendByte(self, bytes[i + 1])
    ELSE Let({Sha256_appendLoop(half, bytes, i + n \div 2, n - n \div 2)
              : half \in {Sha256_appendLoop(self, bytes, i, n \div 2)}})

\* Sha256::append without "length += len".
Sha256_appendNoLength(self, bytes) == Sha256_appendLoop(self, bytes, 0, Len(bytes))

\* Sha256::append
Sha256_append(self, bytes) ==
    Let({[state |-> done.state, length |-> done.length + Len(bytes), buffer |-> done.buffer,
          bufferLen |-> done.bufferLen, fed |-> done.fed]
         : done \in {Sha256_appendLoop(self, bytes, 0, Len(bytes))}})

\* Sha256::getHash(), n passes of the loop "while (bufferLen != 56)
\* append(&temp, 1)" with temp = 0 (the first half of them, then the rest).
RECURSIVE Sha256_padPasses(_, _)
Sha256_padPasses(self, n) ==
    IF n = 0 THEN self
    ELSE IF n = 1 THEN Sha256_append(self, <<0>>)
    ELSE Let({Sha256_padPasses(half, n - n \div 2)
              : half \in {Sha256_padPasses(self, n \div 2)}})

\* That loop: each pass moves bufferLen one step round 0 .. 63, so the loop
\* makes (56 - bufferLen) mod 64 passes.
Sha256_padLoop(self) ==
    Sha256_padPasses(self, (56 + SHA256_BLOCK_LEN - self.bufferLen) % SHA256_BLOCK_LEN)

\* Sha256::getHash(), the loop appending the 8 bytes of bitLength.
RECURSIVE Sha256_lengthLoop(_, _, _)
Sha256_lengthLoop(self, bitLength, i) ==
    IF i = 8 THEN self
    ELSE Let({Sha256_lengthLoop(next, bitLength, i + 1)
              : next \in {Sha256_append(self, <<U64_shr(bitLength, (7 - i) * 8) % 256>>)}})

\* Sha256::getHash(): the hasher as the call leaves it, and the hash.
Sha256_getHashStateful(self) ==
    Let({[self |-> done, hash |-> Sha256_result(done.state)]
         : done \in {Sha256_lengthLoop(Sha256_padLoop(Sha256_append(self, <<128>>)),
                                       self.length * 8, 0)}})

(***************************************************************************)
(* Base58Check.  A byte array is a sequence of numbers in 0..255 and a C   *)
(* string the sequence of the character codes before its terminating NUL   *)
(* (index 1 is the C index 0).                                             *)
(***************************************************************************)
\* Base58Check::ALPHABET, as character codes.
Base58Check_ALPHABET ==
    <<49, 50, 51, 52, 53, 54, 55, 56, 57, 65, 66, 67, 68, 69, 70,
      71, 72, 74, 75, 76, 77, 78, 80, 81, 82, 83, 84, 85, 86, 87,
      88, 89, 90, 97, 98, 99, 100, 101, 102, 103, 104, 105, 106, 107, 109,
      110, 111, 112, 113, 114, 115, 116, 117, 118, 119, 120, 121, 122>>

\* The sequence with the values of the function f on 1 .. n.
ToSeq(f, n) == SubSeq(f, 1, n)

\* Base58Check::isZero
Base58Check_isZero(x) == \A i \in 1..Len(x) : x[i] = 0

\* Base58Check::mod58, the passes i .. i + n - 1 of the loop (the first half
\* of them, then the rest).
RECURSIVE Base58Check_mod58Loop(_, _, _, _)
Base58Check_mod58Loop(x, sum, i, n) ==
    IF n = 0 THEN sum
    ELSE IF n = 1 THEN ((sum * 24) + x[i + 1]) % 58
    ELSE Let({Base58Check_mod58Loop(x, half, i + n \div 2, n - n \div 2)
              : half \in {Base58Check_mod58Loop(x, sum, i, n \div 2)}})

\* Base58Check::mod58
Base58Check_mod58(x) == Base58Check_mod58Loop(x, 0, 0, Len(x))

\* Base58Check::divide58, the passes i .. i + n - 1 of the loop: the bytes
\* of y they write, and the dividend they leave.
RECURSIVE Base58Check_divide58Loop(_, _, _, _)
Base58Check_divide58Loop(x, dividend, i, n) ==
    IF n = 0 THEN [y |-> <<>>, dividend |-> dividend]
    ELSE IF n = 1
    THEN [y |-> <<(dividend * 256 + x[i + 1]) \div 58>>,
          dividend |-> (dividend * 256 + x[i + 1]) % 58]
    ELSE Let({Let({[y |-> first.y \o rest.y, dividend |-> rest.dividend]
         : rest \in {Base58Check_divide58Loop(x, first.dividend, i + n \div 2, n - n \div 2)}})
         : first \in {Base58Check_divide58Loop(x, dividend, i, n \div 2)}})

\* Base58Check::divide58: y = floor(x / 58).
Base58Check_divide58(x) == Base58Check_divide58Loop(x, 0, 0, Len(x)).y

\* Base58Check::bytesToBase58Check counting no leading zero bytes.
Base58Check_leadingZerosNone(data, leadingZeros) == 0

\* Base58Check::bytesToBase58Check, the loop counting leading zero bytes.
RECURSIVE Base58Check_leadingZeros(_, _)
Base58Check_leadingZeros(data, leadingZeros) ==
    IF leadingZeros < Len(data) /\ data[leadingZeros + 1] = 0
    THEN Base58Check_leadingZeros(data, leadingZeros + 1)
    ELSE leadingZeros

\* Base58Check::bytesToBase58Check, at most n passes of the loop
\* "while (!isZero(data, dataLen))" (the first half of them, then the
\* rest): the digits written to outStr and the data left.
RECURSIVE Base58Check_digitsLoop(_, _)
Base58Check_digitsLoop(st, n) ==
    IF n = 1
    THEN IF Base58Check_isZero(st.data) THEN st
         ELSE [outStr |-> Append(st.outStr, Base58Check_ALPHABET[Base58Check_mod58(st.data) + 1]),
               data |-> Base58Check_divide58(st.data)]
    ELSE Let({Base58Check_digitsLoop(half, n - n \div 2)
              : half \in {Base58Check_digitsLoop(st, n \div 2)}})

\* n times the character c.
RECURSIVE Repeated(_, _)
Repeated(c, n) == IF n = 0 THEN <<>> ELSE Append(Repeated(c, n - 1), c)

\* Base58Check::bytesToBase58Check from "Count leading zero bytes" on: the
\* digits of the number, least significant first (2 * dataLen passes are
\* more than the loop makes), then a '1' for each leading zero byte, and
\* the string reversed.
Base58Check_encode(data) ==
    Let({ToSeq([k \in 1..Len(outStr) |-> outStr[Len(outStr) + 1 - k]], Len(outStr))
         : outStr \in {Base58Check_digitsLoop([outStr |-> <<>>, data |-> data],
                                              2 * Len(data) + 1).outStr
                       \o Repeated(Base58Check_ALPHABET[1],
                                   Base58Check_leadingZeros(data, 0))}})

\* Base58Check::bytesToBase58Check: the first dataLen bytes of data
\* followed by the first 4 bytes of their double hash, encoded.
Base58Check_bytesToBase58Check(data) ==
    Base58Check_encode(data \o SubSeq(Sha256_getDoubleHash(data), 1, 4))

(***************************************************************************)
(* Uint256 at its full width, for the keys Base58Check and                 *)
(* ExtendedPrivateKey handle: the sequence of the 8 words value[0] ..      *)
(* value[7], each a uint32_t as in SHA-256 above.                          *)
(***************************************************************************)
\* Uint256::Uint256(const uint8_t b[32]): value[i >> 2] |= b[31 - i] <<
\* ((i & 3) << 3), so value[w] is made of the bytes b[28 - 4w .. 31 - 4w].
U256_fromBytes(b) ==
    ToSeq([w \in 1..8 |-> U32_fromBytes(b[32 - 4 * w + 1], b[32 - 4 * w + 2],
                                        b[32 - 4 * w + 3], b[32 - 4 * w + 4])], 8)

\* Uint256::getBigEndianBytes at the full width.
U256_getBigEndianBytes(self) ==
    ToSeq([k \in 1..32 |-> U32_byte(self[8 - ((k - 1) \div 4)], (k - 1) % 4)], 32)

\* Uint256::ZERO and CurvePoint::ORDER at the full width.
U256_ZERO == U256_fromBytes(Zeros(32))

U256_ORDER ==
    U256_fromBytes(<<255, 255, 255, 255, 255, 255, 255, 255, 255, 255, 255, 255, 255, 255, 255, 254,
                    186, 174, 220, 230, 175, 72, 160, 59, 191, 210, 94, 140, 208, 54, 65, 65>>)

\* value[i] < other.value[i] on uint32_t.
U32_lt(x, y) == x[1] < y[1] \/ (x[1] = y[1] /\ x[2] < y[2])

\* Uint256::operator== at the full width.
RECURSIVE U256_eqLoop(_, _, _, _)
U256_eqLoop(self, other, i, diff) ==
    IF i = 8 THEN ~diff
    ELSE U256_eqLoop(self, other, i + 1, diff \/ (self[i + 1] # other[i + 1]))

U256_eq(self, other) == U256_eqLoop(self, other, 0, FALSE)

\* Uint256::operator< and operator>= at the full width.
RECURSIVE U256_ltLoop(_, _, _, _)
U256_ltLoop(self, other, i, result) ==
    IF i = 8 THEN result
    ELSE U256_ltLoop(self, other, i + 1,
                     ((self[i + 1] = other[i + 1]) /\ result)
                        \/ ((self[i + 1] # other[i + 1]) /\ U32_lt(self[i + 1], other[i + 1])))

U256_lt(self, other) == U256_ltLoop(self, other, 0, FALSE)

\* Uint256::operator> at the full width.
U256_gt(self, other) == U256_lt(other, self)

U256_ge(self, other) == ~U256_lt(self, other)

\* Utils::storeBigUint32 on a uint32_t of the full width.
U32_storeBig(x) == <<U32_byte(x, 0), U32_byte(x, 1), U32_byte(x, 2), U32_byte(x, 3)>>

\* Base58Check::pubkeyHashToBase58Check
Base58Check_pubkeyHashToBase58Check(pubkeyHash, version) ==
    Base58Check_bytesToBase58Check(<<version>> \o pubkeyHash)

\* Base58Check::privateKeyToBase58Check: dataLen is 34 with the compressed
\* marker and 33 without it.
Base58Check_privateKeyToBase58Check(privKey, version, isCompressed) ==
    Let({Base58Check_bytesToBase58Check(SubSeq(toEncode, 1, IF isCompressed THEN 34 ELSE 33))
         : toEncode \in {<<version>> \o U256_getBigEndianBytes(privKey) \o <<1>>}})

\* Base58Check::extendedPrivateKeyToBase58Check (0x0488ADE4 is the bytes
\* 4, 136, 173, 228).
Base58Check_extendedPrivateKeyToBase58Check(key) ==
    Base58Check_bytesToBase58Check(
        <<4, 136, 173, 228>> \o <<key.depth>> \o key.parentPubkeyHash
           \o U32_storeBig(key.index) \o key.chainCode \o <<0>>
           \o U256_getBigEndianBytes(key.privateKey))

\* Base58Check::multiply58 on the bytes x[lo + 1 .. lo + n], from the last
\* one to the first (the second half, then the first): the bytes left there
\* and the carry out of them.
RECURSIVE Base58Check_multiply58Loop(_, _, _, _)
Base58Check_multiply58Loop(x, carry, lo, n) ==
    IF n = 1
    THEN [x |-> <<(x[lo + 1] * 58 + carry) % 256>>, carry |-> (x[lo + 1] * 58 + carry) \div 256]
    ELSE Let({Let({[x |-> left.x \o right.x, carry |-> left.carry]
         : left \in {Base58Check_multiply58Loop(x, right.carry, lo, n \div 2)}})
         : right \in {Base58Check_multiply58Loop(x, carry, lo + n \div 2, n - n \div 2)}})

\* Base58Check::multiply58: x = x * 58, and whether a carry is left.
Base58Check_multiply58(x) ==
    Let({[x |-> res.x, ret |-> res.carry > 0]
         : res \in {Base58Check_multiply58Loop(x, 0, 0, Len(x))}})

\* Base58Check::addUint8 on the bytes x[lo + 1 .. lo + n], from the last one
\* to the first; y is added at the last byte of x.
RECURSIVE Base58Check_addUint8Loop(_, _, _, _, _)
Base58Check_addUint8Loop(x, y, carry, lo, n) ==
    IF n = 1
    THEN Let({[x |-> <<sum % 256>>, carry |-> sum \div 256]
              : sum \in {x[lo + 1] + carry + (IF lo + 1 = Len(x) THEN y ELSE 0)}})
    ELSE Let({Let({[x |-> left.x \o right.x, carry |-> left.carry]
         : left \in {Base58Check_addUint8Loop(x, y, right.carry, lo, n \div 2)}})
         : right \in {Base58Check_addUint8Loop(x, y, carry, lo + n \div 2, n - n \div 2)}})

\* Base58Check::addUint8: x = x + y, and whether a carry is left.
Base58Check_addUint8(x, y) ==
    Let({[x |-> res.x, ret |-> res.carry > 0]
         : res \in {Base58Check_addUint8Loop(x, y, 0, 0, Len(x))}})

\* std::strchr(ALPHABET, c) - ALPHABET + 1.
Base58Check_strchrFromOne(c) ==
    IF \E k \in 1..58 : Base58Check_ALPHABET[k] = c
    THEN CHOOSE k \in 1..58 : Base58Check_ALPHABET[k] = c
    ELSE -1

\* std::strchr(ALPHABET, c) - ALPHABET for a character c other than NUL, or
\* -1 for the null pointer.
Base58Check_strchr(c) ==
    IF \E k \in 1..58 : Base58Check_ALPHABET[k] = c
    THEN (CHOOSE k \in 1..58 : Base58Check_ALPHABET[k] = c) - 1
    ELSE -1

\* Base58Check::base58CheckToBytes, one pass of the conversion loop, for
\* the character c: st.failed records "return false".
Base58Check_digit(st, c) ==
    IF st.failed THEN st
    ELSE Let({IF times.ret \/ Base58Check_strchr(c) < 0
              THEN [failed |-> TRUE, outData |-> times.x]
              ELSE Let({[failed |-> plus.ret, outData |-> plus.x]
                        : plus \in {Base58Check_addUint8(times.x, Base58Check_strchr(c))}})
              : times \in {Base58Check_multiply58(st.outData)}})

\* The passes for the characters inStr[i + 1 .. i + n] (the first half of
\* them, then the rest).
RECURSIVE Base58Check_digits(_, _, _, _)
Base58Check_digits(st, inStr, i, n) ==
    IF n = 0 THEN st
    ELSE IF n = 1 THEN Base58Check_digit(st, inStr[i + 1])
    ELSE Let({Base58Check_digits(half, inStr, i + n \div 2, n - n \div 2)
              : half \in {Base58Check_digits(st, inStr, i, n \div 2)}})

\* base58CheckToBytes without the loop "Verify number of leading zeros".
Base58Check_leadingOnesUnverified(inStr, outData, i) == TRUE

\* Base58Check::base58CheckToBytes, the loop "Verify number of leading
\* zeros" from i on: TRUE for "Success", FALSE for "Mismatch".  inStr[i] is
\* the terminating NUL when i is the length of the string.
RECURSIVE Base58Check_leadingOnes(_, _, _)
Base58Check_leadingOnes(inStr, outData, i) ==
    Let({IF c # 49 /\ (i >= Len(outData) \/ outData[i + 1] # 0) THEN TRUE
         ELSE IF c = 49 /\ i < Len(outData) /\ outData[i + 1] = 0
              THEN Base58Check_leadingOnes(inStr, outData, i + 1)
         ELSE FALSE
         : c \in {IF i < Len(inStr) THEN inStr[i + 1] ELSE 0}})

\* Base58Check::base58CheckToBytes: the return value and outData.
Base58Check_base58CheckToBytes(inStr, outDataLen) ==
    Let({IF st.failed THEN [ret |-> FALSE, outData |-> st.outData]
         ELSE IF ~Base58Check_leadingOnes(inStr, st.outData, 0)
              THEN [ret |-> FALSE, outData |-> st.outData]
         ELSE [ret |-> SubSeq(st.outData, outDataLen - 3, outDataLen)
                          = SubSeq(Sha256_getDoubleHash(SubSeq(st.outData, 1, outDataLen - 4)),
                                   1, 4),
               outData |-> st.outData]
         : st \in {Base58Check_digits([failed |-> FALSE, outData |-> Zeros(outDataLen)],
                                      inStr, 0, Len(inStr))}})

\* Base58Check::pubkeyHashFromBase58Check: the return value and the outputs,
\* which enter as out.
Base58Check_pubkeyHashFromBase58Check(addrStr, out) ==
    IF Len(addrStr) < 25 \/ Len(addrStr) > 35 THEN [ret |-> FALSE, out |-> out]
    ELSE Let({IF ~decoded.ret THEN [ret |-> FALSE, out |-> out]
              ELSE [ret |-> TRUE,
                    out |-> [pubkeyHash |-> SubSeq(decoded.outData, 2, 21),
                             version |-> decoded.outData[1]]]
              : decoded \in {Base58Check_base58CheckToBytes(addrStr, 25)}})

\* Base58Check::privateKeyFromBase58Check
Base58Check_privateKeyFromBase58Check(wifStr, out) ==
    IF Len(wifStr) < 38 \/ Len(wifStr) > 52 THEN [ret |-> FALSE, out |-> out]
    ELSE Let({
        IF uncompressed.ret
        THEN [ret |-> TRUE,
              out |-> [privKey |-> U256_fromBytes(SubSeq(uncompressed.outData, 2, 33)),
                       version |-> uncompressed.outData[1], isCompressed |-> FALSE]]
        ELSE Let({IF ~compressed.ret THEN [ret |-> FALSE, out |-> out]
                  ELSE IF compressed.outData[34] # 1 THEN [ret |-> FALSE, out |-> out]
                  ELSE [ret |-> TRUE,
                        out |-> [privKey |-> U256_fromBytes(SubSeq(compressed.outData, 2, 33)),
                                 version |-> compressed.outData[1], isCompressed |-> TRUE]]
                  : compressed \in {Base58Check_base58CheckToBytes(wifStr, 38)}})
        : uncompressed \in {Base58Check_base58CheckToBytes(wifStr, 37)}})

\* ExtendedPrivateKey::ExtendedPrivateKey(privKey, chcd, dep, idx, ppkh),
\* without the field publicKey.
ExtendedPrivateKey_new(privKey, chcd, dep, idx, ppkh) ==
    [privateKey |-> privKey, chainCode |-> chcd, depth |-> dep, index |-> idx,
     parentPubkeyHash |-> ppkh]

\* Base58Check::extendedPrivateKeyFromBase58Check
Base58Check_extendedPrivateKeyFromBase58Check(xprvStr, out) ==
    IF Len(xprvStr) # 111 THEN [ret |-> FALSE, out |-> out]
    ELSE Let({Let({
        IF ~decoded.ret THEN [ret |-> FALSE, out |-> out]
        ELSE IF SubSeq(decoded.outData, 1, 4) # <<4, 136, 173, 228>>
             THEN [ret |-> FALSE, out |-> out]
        ELSE IF decoded.outData[46] # 0 THEN [ret |-> FALSE, out |-> out]
        ELSE IF U256_eq(privateKey, U256_ZERO) \/ U256_ge(privateKey, U256_ORDER)
             THEN [ret |-> FALSE, out |-> out]
        ELSE [ret |-> TRUE,
              out |-> ExtendedPrivateKey_new(privateKey, SubSeq(decoded.outData, 14, 45),
                          decoded.outData[5],
                          U32_fromBytes(decoded.outData[10], decoded.outData[11],
                                        decoded.outData[12], decoded.outData[13]),
                          SubSeq(decoded.outData, 6, 9))]
        : privateKey \in {U256_fromBytes(SubSeq(decoded.outData, 47, 78))}})
        : decoded \in {Base58Check_base58CheckToBytes(xprvStr, 82)}})

\* CurvePoint::privateExponentToPublicPoint, its entry assertion.
CurvePoint_privateExponentToPublicPointAssert(privExp) ==
    Uint256_lt(Uint256_ZERO, privExp) /\ Uint256_lt(privExp, ORDER)

\* CurvePoint::privateExponentToPublicPoint past its entry assertion.
CurvePoint_privateExponentToPublicPoint(privExp) ==
    Let({CurvePoint_normalize(result)
         : result \in {CurvePoint_multiply(CurvePoint_G, privExp)}})

(***************************************************************************)
(* Ecdsa                                                                   *)
(***************************************************************************)
BYTES_PER_WORD == WORD_BITS \div 8
HASH_LEN == NUM_WORDS * BYTES_PER_WORD

\* Uint256::Uint256(const uint8_t b[NUM_WORDS * 4]): big-endian bytes to words,
\* value[i >> 2] |= b[NUM_WORDS * 4 - 1 - i] << ((i & 3) << 3).
RECURSIVE Uint256_fromBytesLoop(_, _, _)
Uint256_fromBytesLoop(value, b, i) ==
    IF i = HASH_LEN THEN value
    ELSE Let({Uint256_fromBytesLoop(next, b, i + 1)
              : next \in {[value EXCEPT ![i \div BYTES_PER_WORD] =
                  value[i \div BYTES_PER_WORD]
                  + b[HASH_LEN - 1 - i] * 2^((i % BYTES_PER_WORD) * 8)]}})

Uint256_fromBytes(b) == Uint256_fromBytesLoop(Uint256_ZERO, b, 0)

(***************************************************************************)
(* RIPEMD-160 at its full width, on the uint32_t pairs and byte sequences  *)
(* of the SHA-256 section.                                                 *)
(***************************************************************************)
Ripemd160_HASH_LEN == 20

Ripemd160_BLOCK_LEN == 64

Ripemd160_NUM_ROUNDS == 80

Ripemd160_KL == <<<<0, 0>>, <<23170, 31129>>, <<28377, 60321>>, <<36635, 48348>>, <<43347, 64846>>>>

Ripemd160_KR == <<<<20642, 35814>>, <<23629, 53540>>, <<28016, 16115>>, <<31341, 30441>>, <<0, 0>>>>

Ripemd160_RL ==
    << 0,  1,  2,  3,  4,  5,  6,  7,  8,  9, 10, 11, 12, 13, 14, 15,
       7,  4, 13,  1, 10,  6, 15,  3, 12,  0,  9,  5,  2, 14, 11,  8,
       3, 10, 14,  4,  9, 15,  8,  1,  2,  7,  0,  6, 13, 11,  5, 12,
       1,  9, 11, 10,  0,  8, 12,  4, 13,  3,  7, 15, 14,  5,  6,  2,
       4,  0,  5,  9,  7, 12,  2, 10, 14,  1,  3,  8, 11,  6, 15, 13>>

Ripemd160_RR ==
    << 5, 14,  7,  0,  9,  2, 11,  4, 13,  6, 15,  8,  1, 10,  3, 12,
       6, 11,  3,  7,  0, 13,  5, 10, 14, 15,  8, 12,  4,  9,  1,  2,
      15,  5,  1,  3,  7, 14,  6,  9, 11,  8, 12,  2, 10,  0,  4, 13,
       8,  6,  4,  1,  3, 11, 15,  0,  5, 12,  2, 13,  9,  7, 10, 14,
      12, 15, 10,  4,  1,  5,  8,  7,  6,  2, 13, 14,  0,  3,  9, 11>>

Ripemd160_SL ==
    <<11, 14, 15, 12,  5,  8,  7,  9, 11, 13, 14, 15,  6,  7,  9,  8,
       7,  6,  8, 13, 11,  9,  7, 15,  7, 12, 15,  9, 11,  7, 13, 12,
      11, 13,  6,  7, 14,  9, 13, 15, 14,  8, 13,  6,  5, 12,  7,  5,
      11, 12, 14, 15, 14, 15,  9,  8,  9, 14,  5,  6,  8,  6,  5, 12,
       9, 15,  5, 11,  6,  8, 13, 12,  5, 12, 13, 14, 11,  8,  5,  6>>

Ripemd160_SR ==
    << 8,  9,  9, 11, 13, 15, 15,  5,  7,  7,  8, 11, 14, 14, 12,  6,
       9, 13, 15,  7, 12,  8,  9, 11,  7,  7, 12,  7,  6, 15, 13, 11,
       9,  7, 15, 11,  8,  6,  6, 14, 12, 13,  5, 14, 13, 13,  7,  5,
      15,  5,  8, 11, 14, 14,  6, 14,  6,  9, 12,  9, 12,  5, 15,  8,
       8,  5, 12,  9, 12,  5, 14,  6,  8, 13,  6,  5, 15, 13, 11, 11>>

\* ~x on a uint32_t.
U32_not(x) == <<65535 - x[1], 65535 - x[2]>>

\* Ripemd160::rotl32(x, i) = (x << i) | (x >> (32 - i)), for 0 < i < 16.
Ripemd160_rotl32(x, i) ==
    <<((x[1] * 2^i) % 65536) + x[2] \div 2^(16 - i),
      ((x[2] * 2^i) % 65536) + x[1] \div 2^(16 - i)>>

\* Ripemd160::f(i, x, y, z)
Ripemd160_f(i, x, y, z) ==
    CASE i \div 16 = 0 -> U32_xor(U32_xor(x, y), z)
      [] i \div 16 = 1 -> U32_or(U32_and(x, y), U32_and(U32_not(x), z))
      [] i \div 16 = 2 -> U32_xor(U32_or(x, U32_not(y)), z)
      [] i \div 16 = 3 -> U32_or(U32_and(x, z), U32_and(y, U32_not(z)))
      [] i \div 16 = 4 -> U32_xor(x, U32_or(y, U32_not(z)))

\* Ripemd160::compress, round j on v = <<al, bl, cl, dl, el, ar, br, cr, dr, er>>.
Ripemd160_round(v, schedule, j) ==
    Let({Let({<<v[5], templ, v[2], Ripemd160_rotl32(v[3], 10), v[4],
                v[10], tempr, v[7], Ripemd160_rotl32(v[8], 10), v[9]>>
         : tempr \in {U32_add(Ripemd160_rotl32(
                         U32_add(U32_add(U32_add(v[6],
                             Ripemd160_f(Ripemd160_NUM_ROUNDS - 1 - j, v[7], v[8], v[9])),
                             schedule[Ripemd160_RR[j + 1] + 1]), Ripemd160_KR[(j \div 16) + 1]),
                         Ripemd160_SR[j + 1]), v[10])}})
         : templ \in {U32_add(Ripemd160_rotl32(
                         U32_add(U32_add(U32_add(v[1], Ripemd160_f(j, v[2], v[3], v[4])),
                             schedule[Ripemd160_RL[j + 1] + 1]), Ripemd160_KL[(j \div 16) + 1]),
                         Ripemd160_SL[j + 1]), v[5])}})

\* The rounds j .. j + n - 1 (the first half of them, then the rest).
RECURSIVE Ripemd160_rounds(_, _, _, _)
Ripemd160_rounds(v, schedule, j, n) ==
    IF n = 1 THEN Ripemd160_round(v, schedule, j)
    ELSE Let({Ripemd160_rounds(half, schedule, j + n \div 2, n - n \div 2)
              : half \in {Ripemd160_rounds(v, schedule, j, n \div 2)}})

\* Ripemd160::compress, the message schedule of the block at blocks[i ..]:
\* little-endian words.
Ripemd160_schedule(blocks, i) ==
    [j \in 1..16 |->
        U32_fromBytes(blocks[i + 4 * (j - 1) + 4], blocks[i + 4 * (j - 1) + 3],
                      blocks[i + 4 * (j - 1) + 2], blocks[i + 4 * (j - 1) + 1])]

\* Ripemd160::compress(state, blocks, len), from the block at blocks[i ..] on.
RECURSIVE Ripemd160_compressFrom(_, _, _, _)
Ripemd160_compressFrom(state, blocks, len, i) ==
    IF i >= len THEN state
    ELSE Let({Let({Ripemd160_compressFrom(
                       <<U32_add(U32_add(state[2], v[3]), v[9]),
                         U32_add(U32_add(state[3], v[4]), v[10]),
                         U32_add(U32_add(state[4], v[5]), v[6]),
                         U32_add(U32_add(state[5], v[1]), v[7]),
                         U32_add(U32_add(state[1], v[2]), v[8])>>,
                       blocks, len, i + Ripemd160_BLOCK_LEN)
         : v \in {Ripemd160_rounds(<<state[1], state[2], state[3], state[4], state[5],
                                     state[1], state[2], state[3], state[4], state[5]>>,
                                   schedule, 0, Ripemd160_NUM_ROUNDS)}})
         : schedule \in {Ripemd160_schedule(blocks, i)}})

Ripemd160_compress(state, blocks, len) == Ripemd160_compressFrom(state, blocks, len, 0)

\* The block with the 64-bit length in its last 8 bytes, least significant
\* byte first: (len & 0x1F) << 3, then the bytes of len >> 5.
Ripemd160_withLength(block, len) ==
    [k \in 1..Ripemd160_BLOCK_LEN |->
        IF k = Ripemd160_BLOCK_LEN - 8 + 1 THEN ((len % 32) * 8) % 256
        ELSE IF k > Ripemd160_BLOCK_LEN - 8 + 1
             THEN U64_shr(len \div 32, 8 * (k - (Ripemd160_BLOCK_LEN - 8 + 2))) % 256
        ELSE block[k]]

\* Ripemd160::getHash(msg, len, hashResult): the result's bytes are the
\* state words, little endian.
Ripemd160_getHash(msg) ==
    Let({Let({Let({Let({Let({Let({
        [i \in 1..Ripemd160_HASH_LEN |-> U32_byte(final[((i - 1) \div 4) + 1], 3 - ((i - 1) % 4))]
         : final \in {Ripemd160_compress(state2, Ripemd160_withLength(block2, Len(msg)),
                                         Ripemd160_BLOCK_LEN)}})
         : block2 \in {IF (Len(msg) % Ripemd160_BLOCK_LEN) + 1 + 8 > Ripemd160_BLOCK_LEN
                       THEN Zeros(Ripemd160_BLOCK_LEN) ELSE block}})
         : state2 \in {IF (Len(msg) % Ripemd160_BLOCK_LEN) + 1 + 8 > Ripemd160_BLOCK_LEN
                       THEN Ripemd160_compress(state, block, Ripemd160_BLOCK_LEN) ELSE state}})
         : block \in {[k \in 1..Ripemd160_BLOCK_LEN |->
                         IF k <= Len(msg) - off THEN msg[off + k]
                         ELSE IF k = (Len(msg) % Ripemd160_BLOCK_LEN) + 1 THEN 128 ELSE 0]}})
         : state \in {Ripemd160_compress(<<<<26437, 8961>>, <<61389, 43913>>, <<39098, 56574>>,
                                           <<4146, 21622>>, <<50130, 57840>>>>, msg, off)}})
         : off \in {Len(msg) - (Len(msg) % Ripemd160_BLOCK_LEN)}})

(***************************************************************************)
(* ExtendedPrivateKey, on the reduced-width Uint256 and CurvePoint: the    *)
(* private key and the chain code have HASH_LEN bytes each, the index is a *)
(* full uint32_t (a pair of 16-bit halves), the depth a uint8_t.  The      *)
(* definition of Sha512::getHmac is not among the sources (Sha512.hpp      *)
(* declares it): its result is an input of getChildKey here, any array of  *)
(* Sha512_HASH_LEN bytes, and the arguments of the call are kept.          *)
(***************************************************************************)
ExtendedPrivateKey_HARDEN == <<32768, 0>>

Sha512_HASH_LEN == 2 * HASH_LEN

\* ExtendedPrivateKey::ExtendedPrivateKey()
ExtendedPrivateKey_default ==
    [privateKey |-> Uint256_ZERO, publicKey |-> CurvePoint_ZERO, chainCode |-> Zeros(HASH_LEN),
     depth |-> 0, index |-> <<0, 0>>, parentPubkeyHash |-> Zeros(4)]

\* ExtendedPrivateKey::ExtendedPrivateKey(privKey, chcd, dep, idx, ppkh):
\* the public key is computed from the private key, the chain code and the
\* first 4 bytes of ppkh are copied.
ExtendedPrivateKey_newWithPublicKey(privKey, chcd, dep, idx, ppkh) ==
    [privateKey |-> privKey, publicKey |-> CurvePoint_privateExponentToPublicPoint(privKey),
     chainCode |-> SubSeq(chcd, 1, HASH_LEN), depth |-> dep, index |-> idx,
     parentPubkeyHash |-> SubSeq(ppkh, 1, 4)]

\* ExtendedPrivateKey::getChildKey, the array msg handed to Sha512::getHmac:
\* the compressed public key for index < HARDEN, else a zero byte and the
\* private key; then the index, big endian.
ExtendedPrivateKey_msg(self, index) ==
    Let({Let({[k \in 1..(HASH_LEN + 5) |->
                 IF k > HASH_LEN + 1 THEN U32_storeBig(index)[k - (HASH_LEN + 1)]
                 ELSE IF U32_lt(index, ExtendedPrivateKey_HARDEN) THEN compressed[k - 1]
                 ELSE IF k = 1 THEN 0
                 ELSE secret[k - 2]]
         : secret \in {Uint256_getBigEndianBytes(self.privateKey)}})
         : compressed \in {CurvePoint_toCompressedPoint(self.publicKey)}})

\* static_cast<uint8_t>(depth + 1)
ExtendedPrivateKey_childDepth(depth) == (depth + 1) % 256

\* ExtendedPrivateKey::getChildKey(index), from the result hash of
\* Sha512::getHmac(chainCode, msg) on.
ExtendedPrivateKey_getChildKey(self, index, hash) ==
    Let({
        IF Uint256_ge(num, ORDER) THEN ExtendedPrivateKey_default
        ELSE Let({Let({
            IF Uint256_eq(difference.value, Uint256_ZERO) THEN ExtendedPrivateKey_default
            ELSE Let({Let({Let({
                ExtendedPrivateKey_newWithPublicKey(difference.value,
                    SubSeq(hash, HASH_LEN + 1, 2 * HASH_LEN),
                    ExtendedPrivateKey_childDepth(self.depth), index, pubKeyHash)
                 : pubKeyHash \in {Ripemd160_getHash(innerHash)}})
                 : innerHash \in {Sha256_getHash(ToSeq([k \in 1..(HASH_LEN + 1) |->
                                                           pubKeyBytes[k - 1]], HASH_LEN + 1))}})
                 : pubKeyBytes \in {CurvePoint_toCompressedPoint(self.publicKey)}})
             : difference \in {Uint256_subtract(sum.value, ORDER,
                   IF sum.ret = 1 \/ Uint256_ge(sum.value, ORDER) THEN 1 ELSE 0)}})
             : sum \in {Uint256_add(num, self.privateKey, 1)}})
         : num \in {Uint256_fromBytes([k \in 0..(HASH_LEN - 1) |-> hash[k + 1]])}})

\* (y.value[0] >> (i & 31)) & 1: the bit taken from the lowest word always.
Ecdsa_bitLow(y, i) == (y[0] \div (2^(i % WORD_BITS))) % 2

\* (y.value[i >> 5] >> (i & 31)) & 1
Ecdsa_bit(y, i) == (y[i \div WORD_BITS] \div (2^(i % WORD_BITS))) % 2

\* Ecdsa::multiplyModOrder, one iteration of the loop.  ok records assert(z < mod).
Ecdsa_multiplyModOrderStep(st, x, y, i) ==
    Let({Let({Let({Let({[z |-> z2, ok |-> st.ok /\ Uint256_lt(z2, ORDER)]
         : z2 \in {Uint256_subtract(c1.value, ORDER,
             IF c1.ret = 1 \/ Uint256_ge(c1.value, ORDER) THEN 1 ELSE 0).value}})
         : c1 \in {Uint256_add(z1, x, Ecdsa_bit(y, i))}})
         : z1 \in {Uint256_subtract(c0.value, ORDER,
             IF c0.ret = 1 \/ Uint256_ge(c0.value, ORDER) THEN 1 ELSE 0).value}})
         : c0 \in {Uint256_shiftLeft1(st.z)}})

\* Ecdsa::multiplyModOrder, the iterations i = hi-1 down to lo.
RECURSIVE Ecdsa_multiplyModOrderLoop(_, _, _, _, _)
Ecdsa_multiplyModOrderLoop(st, x, y, lo, hi) ==
    IF hi = lo + 1 THEN Ecdsa_multiplyModOrderStep(st, x, y, lo)
    ELSE Let({Ecdsa_multiplyModOrderLoop(half, x, y, lo, (lo + hi) \div 2)
              : half \in {Ecdsa_multiplyModOrderLoop(st, x, y, (lo + hi) \div 2, hi)}})

\* Ecdsa::multiplyModOrder: the value left in x, and ok = every assertion of
\* the body holds (x < mod at entry, z < mod after each iteration).
Ecdsa_multiplyModOrder(x, y) ==
    Let({[value |-> st.z, ok |-> st.ok]
         : st \in {Ecdsa_multiplyModOrderLoop([z |-> Uint256_ZERO, ok |-> Uint256_lt(x, ORDER)],
                                    x, y, 0, NUM_WORDS * WORD_BITS)}})

\* Ecdsa::sign.  outR and outS are the caller's objects with the values they
\* hold at the call.  The result gives the return value, the values of outR
\* and outS at the return, and ok = every assertion reached on the way
\* holds; where ok is FALSE the other fields are what a build without
\* assertions (NDEBUG) computes.
Ecdsa_sign(privateKey, msgHash, nonce, outR, outS) ==
    IF Uint256_eq(nonce, Uint256_ZERO) \/ Uint256_ge(nonce, ORDER)
    THEN [ret |-> FALSE, outR |-> outR, outS |-> outS, ok |-> TRUE]
    ELSE
    Let({Let({IF Uint256_eq(r, Uint256_ZERO)
        THEN [ret |-> FALSE, outR |-> outR, outS |-> outS, ok |-> TRUE]
        ELSE
        Let({Let({Let({Let({Let({Let({Let({IF Uint256_eq(s2.value, Uint256_ZERO)
            THEN [ret |-> FALSE, outR |-> outR, outS |-> outS, ok |-> ok]
            ELSE
            Let({[ret |-> TRUE,
                 outR |-> r,
                 outS |-> Uint256_replace(s2.value, negS,
                              BoolToInt(Uint256_lt(negS, s2.value))),
                 ok |-> ok]
                 : negS \in {Uint256_subtract(ORDER, s2.value, 1).value}})
             : ok \in {Uint256_lt(r, ORDER) /\ s0.ok /\ kInv.ok /\ s2.ok}})
             : s2 \in {Ecdsa_multiplyModOrder(s1, kInv.value)}})
             : kInv \in {Uint256_reciprocalRun(nonce, ORDER)}})
             : s1 \in {Uint256_subtract(carry.value, ORDER,
                 IF carry.ret = 1 \/ Uint256_ge(carry.value, ORDER) THEN 1 ELSE 0).value}})
             : carry \in {Uint256_add(s0.value, z, 1)}})
             : s0 \in {Ecdsa_multiplyModOrder(r, privateKey)}})
             : z \in {Uint256_fromBytes(msgHash)}})
         : r \in {Uint256_subtract(p.x, ORDER, BoolToInt(Uint256_ge(p.x, ORDER))).value}})
         : p \in {CurvePoint_privateExponentToPublicPoint(nonce)}})

\* Ecdsa::signWithHmacNonce with the message hash as the HMAC key and the
\* private key as the HMAC message.
Ecdsa_signWithHmacNonceSwapped(privateKey, msgHash, outR, outS) ==
    Let({Let({Let({
        Ecdsa_sign(privateKey, msgHash, nonce, outR, outS)
         : nonce \in {Uint256_fromBytes([k \in 0..(HASH_LEN - 1) |-> hmac[k + 1]])}})
         : hmac \in {Sha256_getHmac(ToSeq([k \in 1..HASH_LEN |-> msgHash[k - 1]], HASH_LEN),
                                    ToSeq([k \in 1..HASH_LEN |-> privkeyBytes[k - 1]], HASH_LEN))}})
         : privkeyBytes \in {Uint256_getBigEndianBytes(privateKey)}})

\* Ecdsa::signWithHmacNonce.  The private key and the message hash have
\* HASH_LEN bytes each; the nonce is built from the leading HASH_LEN bytes
\* of the HMAC (in the code HASH_LEN is the length of a SHA-256 hash, so
\* these are all of its bytes).
Ecdsa_signWithHmacNonce(privateKey, msgHash, outR, outS) ==
    Let({Let({Let({
        Ecdsa_sign(privateKey, msgHash, nonce, outR, outS)
         : nonce \in {Uint256_fromBytes([k \in 0..(HASH_LEN - 1) |-> hmac[k + 1]])}})
         : hmac \in {Sha256_getHmac(ToSeq([k \in 1..HASH_LEN |-> privkeyBytes[k - 1]], HASH_LEN),
                                    ToSeq([k \in 1..HASH_LEN |-> msgHash[k - 1]], HASH_LEN))}})
         : privkeyBytes \in {Uint256_getBigEndianBytes(privateKey)}})

\* Ecdsa::sign with a nonce in [1, n), up to the conditional subtraction
\* that follows s.add(z): the value of s handed to the second
\* multiplyModOrder.
Ecdsa_signSum(privateKey, msgHash, nonce) ==
    Let({Let({Let({Let({Let({
        Uint256_subtract(carry.value, ORDER,
            IF carry.ret = 1 \/ Uint256_ge(carry.value, ORDER) THEN 1 ELSE 0).value
         : carry \in {Uint256_add(s0.value, z, 1)}})
         : s0 \in {Ecdsa_multiplyModOrder(r, privateKey)}})
         : z \in {Uint256_fromBytes(msgHash)}})
         : r \in {Uint256_subtract(p.x, ORDER, BoolToInt(Uint256_ge(p.x, ORDER))).value}})
         : p \in {CurvePoint_privateExponentToPublicPoint(nonce)}})

\* Ecdsa::verify without its test of 0 < r, s < order.
Ecdsa_verifyUnchecked(publicKey, msgHash, r, s) ==
    Let({IF CurvePoint_isZero(publicKey) \/ Uint256_ne(publicKey.z, FI_ONE)
                \/ ~CurvePoint_isOnCurve(publicKey) \/ ~CurvePoint_isZero(q0)
        THEN [ret |-> FALSE, ok |-> TRUE]
        ELSE
        Let({Let({Let({Let({Let({Let({Let({Let({Let({[ret |-> Uint256_eq(r, px), ok |-> w.ok /\ u1.ok /\ u2.ok]
             : px \in {Uint256_subtract(p3.x, ORDER, BoolToInt(Uint256_ge(p3.x, ORDER))).value}})
             : p3 \in {CurvePoint_normalize(p2)}})
             : p2 \in {CurvePoint_add(p1, q1)}})
             : q1 \in {CurvePoint_multiply(publicKey, u2.value)}})
             : p1 \in {CurvePoint_multiply(CurvePoint_G, u1.value)}})
             : u2 \in {Ecdsa_multiplyModOrder(w.value, r)}})
             : u1 \in {Ecdsa_multiplyModOrder(w.value, z)}})
             : z \in {Uint256_fromBytes(msgHash)}})
             : w \in {Uint256_reciprocalRun(s, ORDER)}})
         : q0 \in {CurvePoint_multiply(publicKey, ORDER)}})

\* verify with a low-S policy: s above (n - 1) / 2 is refused.
Ecdsa_verifyLowS(publicKey, msgHash, r, s) ==
    IF ~(Uint256_lt(Uint256_ZERO, r) /\ Uint256_lt(r, ORDER)
         /\ Uint256_lt(Uint256_ZERO, s) /\ ToInt(s) <= (ToInt(ORDER) - 1) \div 2)
    THEN [ret |-> FALSE, ok |-> TRUE]
    ELSE Ecdsa_verifyUnchecked(publicKey, msgHash, r, s)

\* Ecdsa::verify.  The result gives the return value and ok = every
\* assertion reached on the way holds.
Ecdsa_verify(publicKey, msgHash, r, s) ==
    Let({IF ~(Uint256_lt(Uint256_ZERO, r) /\ Uint256_lt(r, ORDER)
             /\ Uint256_lt(Uint256_ZERO, s) /\ Uint256_lt(s, ORDER))
        THEN [ret |-> FALSE, ok |-> TRUE]
        ELSE IF CurvePoint_isZero(publicKey) \/ Uint256_ne(publicKey.z, FI_ONE)
                \/ ~CurvePoint_isOnCurve(publicKey) \/ ~CurvePoint_isZero(q0)
        THEN [ret |-> FALSE, ok |-> TRUE]
        ELSE
        Let({Let({Let({Let({Let({Let({Let({Let({Let({[ret |-> Uint256_eq(r, px), ok |-> w.ok /\ u1.ok /\ u2.ok]
             : px \in {Uint256_subtract(p3.x, ORDER, BoolToInt(Uint256_ge(p3.x, ORDER))).value}})
             : p3 \in {CurvePoint_normalize(p2)}})
             : p2 \in {CurvePoint_add(p1, q1)}})
             : q1 \in {CurvePoint_multiply(publicKey, u2.value)}})
             : p1 \in {CurvePoint_multiply(CurvePoint_G, u1.value)}})
             : u2 \in {Ecdsa_multiplyModOrder(w.value, r)}})
             : u1 \in {Ecdsa_multiplyModOrder(w.value, z)}})
             : z \in {Uint256_fromBytes(msgHash)}})
             : w \in {Uint256_reciprocalRun(s, ORDER)}})
         : q0 \in {CurvePoint_multiply(publicKey, ORDER)}})

(***************************************************************************)
(* Reference arithmetic on integers, used only to state properties: the    *)
(* field, the group law in affine coordinates, and scalar multiples by     *)
(* double-and-add.  Products are formed four bits at a time so that no     *)
(* intermediate value exceeds TLC's integer range.                         *)
(***************************************************************************)
RefP == ToInt(MODULUS)
RefN == ToInt(ORDER)
RefB == ToInt(B)

\* a * b mod m, for 0 <= a < m < 2^TotalBits and b >= 0
RECURSIVE RefMulMod(_, _, _)
RefMulMod(a, b, m) ==
    IF b = 0 THEN 0
    ELSE (16 * RefMulMod(a, b \div 16, m) + a * (b % 16)) % m

RefAddMod(a, b, m) == (a + b) % m
RefSubMod(a, b, m) == (a + m - b) % m

\* Extended Euclid on (r0, r1) with cofactors (t0, t1) of the second argument.
RECURSIVE RefEuclid(_, _, _, _)
RefEuclid(r0, r1, t0, t1) ==
    IF r1 = 0 THEN [gcd |-> r0, t |-> t0]
    ELSE Let({RefEuclid(r1, r0 % r1, t1, t2)
              : t2 \in {t0 - (r0 \div r1) * t1}})

RefGcd(a, m) == RefEuclid(m, a, 0, 1).gcd

\* the inverse of a modulo m, for gcd(a, m) = 1
RefInverse(a, m) == RefEuclid(m, a % m, 0, 1).t % m

\* Affine points: the point at infinity, or (x, y).
RefInfinity == [inf |-> TRUE, x |-> 0, y |-> 0]
RefPoint(x, y) == [inf |-> FALSE, x |-> x, y |-> y]

RefOnCurveAffine(pt) ==
    pt.inf \/ RefMulMod(pt.y, pt.y, RefP)
                = RefAddMod(RefMulMod(RefMulMod(pt.x, pt.x, RefP), pt.x, RefP), RefB, RefP)

RefNegate(pt) == IF pt.inf THEN pt ELSE RefPoint(pt.x, (RefP - pt.y) % RefP)

\* The chord-and-tangent group law.
RefChord(p1, p2, slope) ==
    Let({RefPoint(x3, RefSubMod(RefMulMod(slope, RefSubMod(p1.x, x3, RefP), RefP),
                               p1.y, RefP))
         : x3 \in {RefSubMod(RefSubMod(RefMulMod(slope, slope, RefP), p1.x, RefP), p2.x, RefP)}})

RefAdd(p1, p2) ==
    IF p1.inf THEN p2
    ELSE IF p2.inf THEN p1
    ELSE IF p1.x = p2.x /\ (p1.y + p2.y) % RefP = 0 THEN RefInfinity
    ELSE IF p1.x = p2.x
         THEN Let({RefChord(p1, p2, slope)
                   : slope \in {RefMulMod(RefMulMod(3, RefMulMod(p1.x, p1.x, RefP), RefP),
                             RefInverse(RefAddMod(p1.y, p1.y, RefP), RefP), RefP)}})
         ELSE Let({RefChord(p1, p2, slope)
                   : slope \in {RefMulMod(RefSubMod(p2.y, p1.y, RefP),
                             RefInverse(RefSubMod(p2.x, p1.x, RefP), RefP), RefP)}})

\* [k]pt by double-and-add
RECURSIVE RefMul(_, _)
RefMul(k, pt) ==
    IF k = 0 THEN RefInfinity
    ELSE Let({Let({IF k % 2 = 1 THEN RefAdd(dbl, pt) ELSE dbl
              : dbl \in {RefAdd(half, half)}})
              : half \in {RefMul(k \div 2, pt)}})

\* The affine point a projective triple stands for: Z = 0 is the point at
\* infinity, otherwise (X / Z, Y / Z).
RefAffine(pt) ==
    IF ToInt(pt.z) = 0 THEN RefInfinity
    ELSE Let({RefPoint(RefMulMod(ToInt(pt.x), zi, RefP), RefMulMod(ToInt(pt.y), zi, RefP))
              : zi \in {RefInverse(ToInt(pt.z), RefP)}})

\* The projective triple satisfies Y^2 Z = X^3 + B Z^3 (mod p).
RefOnCurveProjective(pt) ==
    Let({RefMulMod(RefMulMod(c[2], c[2], RefP), c[3], RefP)
            = RefAddMod(RefMulMod(RefMulMod(c[1], c[1], RefP), c[1], RefP),
                        RefMulMod(RefB, RefMulMod(RefMulMod(c[3], c[3], RefP), c[3], RefP),
                                  RefP),
                        RefP)
         : c \in {<<ToInt(pt.x), ToInt(pt.y), ToInt(pt.z)>>}})

RefG == RefAffine(CurvePoint_G)

(***************************************************************************)
(* The state machines.  Each variable holds the objects of one part of     *)
(* the library together with a record of the last call made on them.       *)
(***************************************************************************)
VARIABLES ecdsa, curve, field, recip, uint, trace, sha, b58, xkey, hdr

vars == <<ecdsa, curve, field, recip, uint, trace, sha, b58, xkey, hdr>>

Idle == [pc |-> "idle"]

\* The big-endian bytes of a hash value (Sha256Hash::value).
HashBytes(n) == [i \in 0..(HASH_LEN - 1) |-> (n \div (256^(HASH_LEN - 1 - i))) % 256]

(***************************************************************************)
(* Ecdsa: a caller holding two Uint256 objects outR and outS calls sign,   *)
(* and then verify on what sign returned; or it calls verify on a public   *)
(* key and a signature received from elsewhere.  A failed assertion ends   *)
(* the process in a build with assertions and goes unnoticed in a build    *)
(* with NDEBUG; both builds are behaviours of the model.                   *)
(***************************************************************************)
\* Private keys in [1, n): an arbitrary one, and two chosen against the
\* nonce 6996840 (r = 286107) and the hash 2^24 - 1 so that r*d mod n is
\* n - 1, respectively 2n - 2^24 + 1.
PrivateKeys == {12345, 10029605, 3085631}

\* Message hashes: 0, one below n, the largest value (>= n), and the one
\* making s = 0 for the key 12345 and the nonce 6996840.
Hashes == {0, 11259375, 16777215, 6469168}

\* Nonces: 0, n and 2^24 - 1 (outside [1, n)), 1552 (x(k*G) >= n), 6996840.
Nonces == {0, 1552, 6996840, 16769953, 16777215}

\* The values outR and outS hold before the call.
InitialOutR == FromInt(7)
InitialOutS == FromInt(9)

\* Public keys offered to verify: G, the identity, 2G with Z # 1, a
\* triple off the curve.
PublicKeys ==
    {CurvePoint_G, CurvePoint_ZERO, CurvePoint_twice(CurvePoint_G),
     [x |-> FromInt(1), y |-> FromInt(1), z |-> FI_ONE]}

\* Signatures offered to verify: r or s equal to 0, n or 2^24 - 1, and
\* two pairs in range.
Signatures ==
    {<<0, 1>>, <<16769953, 1>>, <<16777215, 1>>, <<1, 0>>, <<1, 16769953>>,
     <<1, 16777215>>, <<286107, 4433003>>, <<1, 1>>}

InitEcdsa ==
    /\ ecdsa = [pc |-> "start", outR |-> InitialOutR, outS |-> InitialOutS]
    /\ curve = Idle
    /\ field = Idle
    /\ recip = Idle
    /\ uint = Idle
    /\ trace = Idle
    /\ sha = Idle
    /\ b58 = Idle
    /\ xkey = Idle
    /\ hdr = Idle

\* The caller calls Ecdsa::sign(privateKey, msgHash, nonce, outR, outS).
Sign(d, m, k) ==
    /\ ecdsa.pc = "start"
    /\ \E res \in {Ecdsa_sign(FromInt(d), HashBytes(m), FromInt(k), ecdsa.outR, ecdsa.outS)} :
          \/ ecdsa' = [pc |-> "signed", privateKey |-> FromInt(d), msgHash |-> HashBytes(m),
                       nonce |-> FromInt(k), prevR |-> ecdsa.outR, prevS |-> ecdsa.outS,
                       outR |-> res.outR, outS |-> res.outS, signRet |-> res.ret,
                       assertsHold |-> res.ok]
          \/ /\ ~res.ok
             /\ ecdsa' = [pc |-> "aborted", during |-> "sign", privateKey |-> FromInt(d),
                          msgHash |-> HashBytes(m), nonce |-> FromInt(k)]
    /\ UNCHANGED <<curve, field, recip, uint, trace, sha, b58, xkey, hdr>>

\* After sign returned true, the caller derives the public key and calls
\* Ecdsa::verify on the signature it got.
VerifySigned ==
    /\ ecdsa.pc = "signed"
    /\ ecdsa.signRet
    /\ \E publicKey \in {CurvePoint_privateExponentToPublicPoint(ecdsa.privateKey)} :
       \E res \in {Ecdsa_verify(publicKey, ecdsa.msgHash, ecdsa.outR, ecdsa.outS)} :
          \/ ecdsa' = [pc |-> "verified", privateKey |-> ecdsa.privateKey,
                       msgHash |-> ecdsa.msgHash, nonce |-> ecdsa.nonce,
                       outR |-> ecdsa.outR, outS |-> ecdsa.outS,
                       signAssertsHold |-> ecdsa.assertsHold,
                       publicKey |-> publicKey, verifyRet |-> res.ret,
                       assertsHold |-> res.ok]
          \/ /\ ~res.ok
             /\ ecdsa' = [pc |-> "aborted", during |-> "verify", privateKey |-> ecdsa.privateKey,
                          msgHash |-> ecdsa.msgHash, nonce |-> ecdsa.nonce]
    /\ UNCHANGED <<curve, field, recip, uint, trace, sha, b58, xkey, hdr>>

\* The caller calls Ecdsa::verify on a public key, a hash and a signature
\* it was given.
VerifyGiven(publicKey, m, sig) ==
    /\ ecdsa.pc = "start"
    /\ \E res \in {Ecdsa_verify(publicKey, HashBytes(m), FromInt(sig[1]), FromInt(sig[2]))} :
          \/ ecdsa' = [pc |-> "checked", publicKey |-> publicKey, msgHash |-> HashBytes(m),
                       r |-> FromInt(sig[1]), s |-> FromInt(sig[2]),
                       verifyRet |-> res.ret, assertsHold |-> res.ok]
          \/ /\ ~res.ok
             /\ ecdsa' = [pc |-> "aborted", during |-> "verify", publicKey |-> publicKey,
                          msgHash |-> HashBytes(m), r |-> FromInt(sig[1]),
                          s |-> FromInt(sig[2])]
    /\ UNCHANGED <<curve, field, recip, uint, trace, sha, b58, xkey, hdr>>

\* After a call of Ecdsa::verify with r and s in (0, n), the caller calls it again
\* on the same public key, hash and r, with n - s in the place of s.
VerifyMirrored ==
    /\ ecdsa.pc \in {"checked", "verified"}
    /\ \E sig \in {IF ecdsa.pc = "checked" THEN <<ecdsa.r, ecdsa.s>>
                   ELSE <<ecdsa.outR, ecdsa.outS>>} :
          /\ 0 < ToInt(sig[1]) /\ ToInt(sig[1]) < ToInt(ORDER)
          /\ 0 < ToInt(sig[2]) /\ ToInt(sig[2]) < ToInt(ORDER)
          /\ \E res \in {Ecdsa_verify(ecdsa.publicKey, ecdsa.msgHash, sig[1],
                                      FromInt(ToInt(ORDER) - ToInt(sig[2])))} :
                \/ ecdsa' = [pc |-> "mirrored", publicKey |-> ecdsa.publicKey,
                             msgHash |-> ecdsa.msgHash, r |-> sig[1], s |-> sig[2],
                             verifyRet |-> ecdsa.verifyRet,
                             mirroredS |-> FromInt(ToInt(ORDER) - ToInt(sig[2])),
                             mirroredRet |-> res.ret, assertsHold |-> res.ok]
                \/ /\ ~res.ok
                   /\ ecdsa' = [pc |-> "aborted", during |-> "verify",
                                publicKey |-> ecdsa.publicKey, msgHash |-> ecdsa.msgHash,
                                r |-> sig[1], s |-> FromInt(ToInt(ORDER) - ToInt(sig[2]))]
    /\ UNCHANGED <<curve, field, recip, uint, trace, sha, b58, xkey, hdr>>

\* Operands of multiplyModOrder: x below n, y any value of the width.
MultiplyXs == {0, 1, 2, 12345, 8384977, 16769952}

MultiplyYs == {0, 1, 2, 255, 65536, 8388608, 10029605, 16769952, 16769953, 16769954, 16777215}

\* A call multiplyModOrder(x, y) with x and y distinct objects, x < n.  y is
\* a reference to const that the function only reads.
MultiplyModOrder(x, y) ==
    /\ ecdsa.pc = "start"
    /\ Uint256_lt(FromInt(x), ORDER)
    /\ \E res \in {Ecdsa_multiplyModOrder(FromInt(x), FromInt(y))} :
          \/ ecdsa' = [pc |-> "multiplied", x |-> FromInt(x), y |-> FromInt(y),
                       value |-> res.value, assertsHold |-> res.ok]
          \/ /\ ~res.ok
             /\ ecdsa' = [pc |-> "aborted", during |-> "multiplyModOrder",
                          x |-> FromInt(x), y |-> FromInt(y)]
    /\ UNCHANGED <<curve, field, recip, uint, trace, sha, b58, xkey, hdr>>

\* Message hashes for signWithHmacNonce: those of Hashes, and for each
\* private key one whose HMAC starts with HASH_LEN bytes that make a nonce
\* of n or more (3868 for 12345, 2660 for 10029605, 125 for 3085631).
HmacHashes == Hashes \cup {3868, 2660, 125}

\* The caller calls Ecdsa::signWithHmacNonce(privateKey, msgHash, outR, outS).
SignWithHmacNonce(d, m) ==
    /\ ecdsa.pc = "start"
    /\ \E res \in {Ecdsa_signWithHmacNonce(FromInt(d), HashBytes(m), ecdsa.outR, ecdsa.outS)} :
          \/ ecdsa' = [pc |-> "hmacSigned", privateKey |-> FromInt(d), msgHash |-> HashBytes(m),
                       prevR |-> ecdsa.outR, prevS |-> ecdsa.outS,
                       outR |-> res.outR, outS |-> res.outS, signRet |-> res.ret,
                       assertsHold |-> res.ok]
          \/ /\ ~res.ok
             /\ ecdsa' = [pc |-> "aborted", during |-> "signWithHmacNonce",
                          privateKey |-> FromInt(d), msgHash |-> HashBytes(m)]
    /\ UNCHANGED <<curve, field, recip, uint, trace, sha, b58, xkey, hdr>>

\* The caller calls signWithHmacNonce a second time with the same private
\* key and message hash, and the same two objects for the outputs.
SignWithHmacNonceAgain ==
    /\ ecdsa.pc = "hmacSigned"
    /\ \E res \in {Ecdsa_signWithHmacNonce(ecdsa.privateKey, ecdsa.msgHash,
                                           ecdsa.outR, ecdsa.outS)} :
          \/ ecdsa' = [pc |-> "hmacSignedAgain", privateKey |-> ecdsa.privateKey,
                       msgHash |-> ecdsa.msgHash, prevR |-> ecdsa.outR, prevS |-> ecdsa.outS,
                       firstRet |-> ecdsa.signRet, firstR |-> ecdsa.outR, firstS |-> ecdsa.outS,
                       outR |-> res.outR, outS |-> res.outS, signRet |-> res.ret,
                       assertsHold |-> res.ok]
          \/ /\ ~res.ok
             /\ ecdsa' = [pc |-> "aborted", during |-> "signWithHmacNonce",
                          privateKey |-> ecdsa.privateKey, msgHash |-> ecdsa.msgHash]
    /\ UNCHANGED <<curve, field, recip, uint, trace, sha, b58, xkey, hdr>>

NextEcdsa ==
    \/ \E publicKey \in PublicKeys, sig \in Signatures : VerifyGiven(publicKey, 11259375, sig)
    \/ \E d \in PrivateKeys, m \in Hashes, k \in Nonces : Sign(d, m, k)
    \/ VerifySigned
    \/ \E x \in MultiplyXs, y \in MultiplyYs : MultiplyModOrder(x, y)
    \/ \E d \in PrivateKeys, m \in HmacHashes : SignWithHmacNonce(d, m)
    \/ SignWithHmacNonceAgain
    \/ VerifyMirrored

SpecEcdsa == InitEcdsa /\ [][NextEcdsa]_vars

(***************************************************************************)
(* Properties of Ecdsa, checked under SpecEcdsa.                           *)
(***************************************************************************)
\* The hash of the call as the integer sign and verify read from its bytes.
HashOf(msgHash) == ToInt(Uint256_fromBytes(msgHash))

\* r = x(k*G) mod n of the signature scheme, by the reference arithmetic.
SchemeR(k) == RefMul(k, RefG).x % RefN

\* s*k = (z + r*d) mod n of the signature scheme is 0 (k is invertible, so
\* this is s = 0).
SchemeSIsZero(d, z, k) == RefAddMod(z % RefN, RefMulMod(SchemeR(k), d, RefN), RefN) = 0

\* The cases in which sign has to return false.
SignMustFail(d, z, k) ==
    \/ k = 0
    \/ k >= RefN
    \/ SchemeR(k) = 0
    \/ SchemeSIsZero(d, z, k)

\* The cases in which verify has to return false.
VerifyMustFail(publicKey, r, s) ==
    \/ r = 0 \/ r >= RefN
    \/ s = 0 \/ s >= RefN
    \/ publicKey = CurvePoint_ZERO
    \/ publicKey.z # FI_ONE
    \/ ~RefOnCurveAffine(RefPoint(ToInt(publicKey.x), ToInt(publicKey.y)))
    \/ ~RefMul(RefN, RefPoint(ToInt(publicKey.x), ToInt(publicKey.y))).inf

\* C1: when sign(d, m, k, r, s) returned true for a private key d in
\* [1, n), verify(privateExponentToPublicPoint(d), m, r, s) returns true.
C1_SignedVerifies ==
    ecdsa.pc = "verified" => ecdsa.verifyRet

\* C2: when sign returned true, 0 < r < n and 0 < s <= (n-1)/2.
C2_LowS ==
    (ecdsa.pc = "signed" /\ ecdsa.signRet) =>
        /\ 0 < ToInt(ecdsa.outR) /\ ToInt(ecdsa.outR) < RefN
        /\ 0 < ToInt(ecdsa.outS) /\ 2 * ToInt(ecdsa.outS) <= RefN - 1

\* C3: sign returns false when the nonce is 0 or >= n, when r is 0 or when
\* s is 0, and on every false return outR and outS are as before the call.
C3_SignRefuses ==
    /\ (ecdsa.pc = "aborted" /\ ecdsa.during = "sign") =>
          ~SignMustFail(ToInt(ecdsa.privateKey), HashOf(ecdsa.msgHash), ToInt(ecdsa.nonce))
    /\ ecdsa.pc = "signed" =>
          /\ SignMustFail(ToInt(ecdsa.privateKey), HashOf(ecdsa.msgHash), ToInt(ecdsa.nonce))
                => ~ecdsa.signRet
          /\ ~ecdsa.signRet => ecdsa.outR = ecdsa.prevR /\ ecdsa.outS = ecdsa.prevS

\* C4: verify returns false, with no assertion failing, whenever r or s is
\* 0 or >= n, or the public key is the identity, has Z # 1, is not on the
\* curve, or n*Q is not the identity.
C4_VerifyRefuses ==
    /\ (ecdsa.pc = "checked" /\ VerifyMustFail(ecdsa.publicKey, ToInt(ecdsa.r), ToInt(ecdsa.s)))
          => ~ecdsa.verifyRet /\ ecdsa.assertsHold
    /\ (ecdsa.pc = "verified"
          /\ VerifyMustFail(ecdsa.publicKey, ToInt(ecdsa.outR), ToInt(ecdsa.outS)))
          => ~ecdsa.verifyRet /\ ecdsa.assertsHold
    /\ ~(ecdsa.pc = "aborted" /\ ecdsa.during = "verify")

\* C4 happens: verify was given an on-curve normalized key with r >= n, and
\* also one with an out-of-range s that sign itself produced.
C4_Witness ==
    \/ /\ ecdsa.pc = "checked"
       /\ ecdsa.publicKey = CurvePoint_G
       /\ ToInt(ecdsa.r) >= RefN
       /\ ~ecdsa.verifyRet
    \/ /\ ecdsa.pc = "verified"
       /\ ToInt(ecdsa.outS) >= RefN
       /\ ~ecdsa.verifyRet

(***************************************************************************)
(* CurvePoint: a caller holds one point and applies add, twice, multiply   *)
(* and normalize to it, at most MaxSteps calls in a row.                   *)
(***************************************************************************)
MaxSteps == 2

\* The point (lambda*X, lambda*Y, lambda*Z): the same point of the curve in
\* another projective scaling.  The identity has the one encoding (0, 1, 0).
Scaled(pt, lambda) ==
    IF pt = CurvePoint_ZERO THEN pt
    ELSE [x |-> FieldInt_multiply(pt.x, FromInt(lambda)),
          y |-> FieldInt_multiply(pt.y, FromInt(lambda)),
          z |-> FieldInt_multiply(pt.z, FromInt(lambda))]

\* The point (X, -Y, Z).
Negated(pt) ==
    IF pt = CurvePoint_ZERO THEN pt
    ELSE [x |-> pt.x, y |-> FieldInt_subtract(FI_ZERO, pt.y), z |-> pt.z]

\* 7*G and -G, normalized.
StartPoints ==
    {CurvePoint_G,
     CurvePoint_ZERO,
     [x |-> FromInt(5531353), y |-> FromInt(7858571), z |-> FI_ONE],
     [x |-> FromInt(1), y |-> FromInt(11335960), z |-> FI_ONE]}

\* The second operand of add, given the first: G, the identity, the first
\* operand and its negative in other scalings, and 7*G unnormalized.
OperandKinds == {"G", "zero", "same", "negative", "other"}

Operand(pt, kind) ==
    CASE kind = "G" -> CurvePoint_G
      [] kind = "zero" -> CurvePoint_ZERO
      [] kind = "same" -> Scaled(pt, 2)
      [] kind = "negative" -> Scaled(Negated(pt), 3)
      [] kind = "other" ->
            Scaled([x |-> FromInt(5531353), y |-> FromInt(7858571), z |-> FI_ONE], 5)

Scalars == {0, 1, 11, 16769953, 16777215}

PrivateExponents == {0, 1, 2, 12345, 16769952, 16769953, 16777215}

\* X coordinates of points with Y = 0, which are not on the curve.
YZeroXs == {0, 1, 2}

InitCurve ==
    /\ curve \in {[pc |-> "start", p |-> pt, steps |-> 0] : pt \in StartPoints}
    /\ ecdsa = Idle
    /\ field = Idle
    /\ recip = Idle
    /\ uint = Idle
    /\ trace = Idle
    /\ sha = Idle
    /\ b58 = Idle
    /\ xkey = Idle
    /\ hdr = Idle

CurveReady == curve.pc \in {"start", "point"} /\ curve.steps < MaxSteps

\* p.add(other)
CurveAdd(kind) ==
    /\ CurveReady
    /\ \E other \in {Operand(curve.p, kind)} :
       \E res \in {CurvePoint_add(curve.p, other)} :
          curve' = [pc |-> "point", op |-> "add", prev |-> curve.p, other |-> other,
                    n |-> Uint256_ZERO, p |-> res, steps |-> curve.steps + 1]
    /\ UNCHANGED <<ecdsa, field, recip, uint, trace, sha, b58, xkey, hdr>>

\* p.twice()
CurveTwice ==
    /\ CurveReady
    /\ \E res \in {CurvePoint_twice(curve.p)} :
          curve' = [pc |-> "point", op |-> "twice", prev |-> curve.p,
                    other |-> CurvePoint_ZERO, n |-> Uint256_ZERO, p |-> res,
                    steps |-> curve.steps + 1]
    /\ UNCHANGED <<ecdsa, field, recip, uint, trace, sha, b58, xkey, hdr>>

\* p.multiply(n)
CurveMultiply(k) ==
    /\ CurveReady
    /\ \E res \in {CurvePoint_multiply(curve.p, FromInt(k))} :
          curve' = [pc |-> "point", op |-> "multiply", prev |-> curve.p,
                    other |-> CurvePoint_ZERO, n |-> FromInt(k), p |-> res,
                    steps |-> curve.steps + 1]
    /\ UNCHANGED <<ecdsa, field, recip, uint, trace, sha, b58, xkey, hdr>>

\* p.normalize()
CurveNormalize ==
    /\ CurveReady
    /\ \E res \in {CurvePoint_normalize(curve.p)} :
          curve' = [pc |-> "point", op |-> "normalize", prev |-> curve.p,
                    other |-> CurvePoint_ZERO, n |-> Uint256_ZERO, p |-> res,
                    steps |-> curve.steps + 1]
    /\ UNCHANGED <<ecdsa, field, recip, uint, trace, sha, b58, xkey, hdr>>

\* CurvePoint::privateExponentToPublicPoint(privExp).  When the entry
\* assertion fails, a build with assertions aborts and one without goes on.
CurvePublicPoint(k) ==
    /\ curve.pc = "start"
    /\ curve.p = CurvePoint_G
    /\ \E ok \in {CurvePoint_privateExponentToPublicPointAssert(FromInt(k))} :
       \E res \in {CurvePoint_privateExponentToPublicPoint(FromInt(k))} :
          \/ curve' = [pc |-> "public", n |-> FromInt(k), p |-> res, assertsHold |-> ok]
          \/ /\ ~ok
             /\ curve' = [pc |-> "aborted", n |-> FromInt(k)]
    /\ UNCHANGED <<ecdsa, field, recip, uint, trace, sha, b58, xkey, hdr>>

\* p.add(p): the same object as both operands.  Were an assertion of
\* Uint256::add or Uint256::subtract to fail, a build with assertions would
\* abort and one without would go on.
CurveAddSelf ==
    /\ CurveReady
    /\ \E res \in {CurvePoint_addInPlace(curve.p, curve.p, TRUE)} :
          \/ curve' = [pc |-> "point", op |-> "addSelf", prev |-> curve.p,
                       other |-> curve.p, n |-> Uint256_ZERO, p |-> res.point,
                       distinct |-> res.distinct, steps |-> curve.steps + 1]
          \/ /\ ~res.distinct
             /\ curve' = [pc |-> "aborted", n |-> Uint256_ZERO]
    /\ UNCHANGED <<ecdsa, field, recip, uint, trace, sha, b58, xkey, hdr>>

\* twice() on (x, 0, 1), a point outside the curve with Y = 0.
CurveTwiceYZero(x0) ==
    /\ curve.pc = "start"
    /\ curve.p = CurvePoint_ZERO
    /\ \E pt \in {[x |-> FromInt(x0), y |-> FI_ZERO, z |-> FI_ONE]} :
       \E res \in {CurvePoint_twice(pt)} :
          curve' = [pc |-> "twicedYZero", prev |-> pt, p |-> res]
    /\ UNCHANGED <<ecdsa, field, recip, uint, trace, sha, b58, xkey, hdr>>

\* p.toCompressedPoint(output), on a normalized point as the function's
\* contract asks: a start point, the result of normalize, or the result of
\* privateExponentToPublicPoint.
CurveToCompressedPoint ==
    /\ curve.pc \in {"start", "point", "public"}
    /\ curve.p.z = FI_ONE \/ curve.p = CurvePoint_ZERO
    /\ \E res \in {CurvePoint_toCompressedPoint(curve.p)} :
          curve' = [pc |-> "compressed", p |-> curve.p, out |-> res]
    /\ UNCHANGED <<ecdsa, field, recip, uint, trace, sha, b58, xkey, hdr>>

NextCurve ==
    \/ \E kind \in OperandKinds : CurveAdd(kind)
    \/ CurveTwice
    \/ \E k \in Scalars : CurveMultiply(k)
    \/ CurveNormalize
    \/ \E k \in PrivateExponents : CurvePublicPoint(k)
    \/ \E x0 \in YZeroXs : CurveTwiceYZero(x0)
    \/ CurveToCompressedPoint
    \/ CurveAddSelf

SpecCurve == InitCurve /\ [][NextCurve]_vars

(***************************************************************************)
(* Properties of CurvePoint, checked under SpecCurve.                      *)
(***************************************************************************)
\* The projective triple that stands for an affine reference point.
RefNormalized(pt) ==
    IF pt.inf THEN CurvePoint_ZERO
    ELSE [x |-> FromInt(pt.x), y |-> FromInt(pt.y), z |-> FI_ONE]

\* C5: multiply leaves the k-fold group sum [k]P for every on-curve or
\* identity P and every scalar k of the full width: [0]P is the identity,
\* [1]P = P, [k+m]P = [k]P + [m]P, and [n]G is the identity (compared
\* after normalize); privateExponentToPublicPoint gives [k]G normalized.
C5_MultiplyIsMultiple ==
    /\ (curve.pc = "point" /\ curve.op = "multiply") =>
          /\ RefAffine(curve.p) = RefMul(ToInt(curve.n), RefAffine(curve.prev))
          /\ CurvePoint_normalize(curve.p)
                = RefNormalized(RefMul(ToInt(curve.n), RefAffine(curve.prev)))
          /\ ToInt(curve.n) = 0 => CurvePoint_normalize(curve.p) = CurvePoint_ZERO
          /\ ToInt(curve.n) = 1 =>
                CurvePoint_normalize(curve.p) = CurvePoint_normalize(curve.prev)
          /\ (ToInt(curve.n) = RefN /\ curve.prev = CurvePoint_G) =>
                CurvePoint_normalize(curve.p) = CurvePoint_ZERO
          /\ \A m \in {1, ToInt(curve.n) \div 2, RefN} :
                m <= ToInt(curve.n) =>
                   RefAffine(curve.p)
                      = RefAdd(RefMul(ToInt(curve.n) - m, RefAffine(curve.prev)),
                               RefMul(m, RefAffine(curve.prev)))
    /\ curve.pc = "public" =>
          curve.p = RefNormalized(RefMul(ToInt(curve.n), RefG))

\* C5 happens: a point other than the identity was multiplied by a scalar
\* >= n and by 0, and G was multiplied by n.
C5_Witness ==
    /\ curve.pc = "point"
    /\ curve.op = "multiply"
    /\ curve.prev # CurvePoint_ZERO
    /\ curve.prev.z # FI_ONE
    /\ ToInt(curve.n) > RefN
    /\ curve.p # CurvePoint_ZERO

\* C6: after any sequence of add, twice, multiply and normalize from G,
\* ZERO or a normalized on-curve point, the point is exactly (0, 1, 0) or
\* has Z # 0 and satisfies Y^2 Z = X^3 + B Z^3 mod p.
C6_OnCurveOrZero ==
    curve.pc \in {"start", "point", "public"} =>
        \/ curve.p = CurvePoint_ZERO
        \/ ToInt(curve.p.z) # 0 /\ RefOnCurveProjective(curve.p)

\* C6 happens: the second call of a sequence produced the identity from
\* two points other than the identity, and another produced a point with
\* Z other than 0 and 1.
C6_Witness ==
    /\ curve.pc = "point"
    /\ curve.steps = MaxSteps
    /\ curve.op = "add"
    /\ curve.prev # CurvePoint_ZERO
    /\ curve.prev.z # FI_ONE
    /\ curve.other # CurvePoint_ZERO
    /\ curve.p = CurvePoint_ZERO

\* C7: add sets P to the group sum P + Q (Q if P is the identity, P if Q
\* is the identity, ZERO if Q = -P, the doubling of P if Q = P in any
\* projective scaling, the chord formula otherwise); twice sets P to
\* P + P, giving ZERO when P is the identity or has Y = 0.
C7_GroupLaw ==
    /\ (curve.pc = "point" /\ curve.op = "add") =>
          /\ RefAffine(curve.p) = RefAdd(RefAffine(curve.prev), RefAffine(curve.other))
          /\ curve.prev = CurvePoint_ZERO => curve.p = curve.other
          /\ curve.other = CurvePoint_ZERO => curve.p = curve.prev
          /\ (curve.prev # CurvePoint_ZERO
                /\ RefAffine(curve.other) = RefNegate(RefAffine(curve.prev)))
                => curve.p = CurvePoint_ZERO
          /\ (curve.prev # CurvePoint_ZERO
                /\ RefAffine(curve.other) = RefAffine(curve.prev))
                => curve.p = CurvePoint_twice(curve.prev)
    /\ (curve.pc = "point" /\ curve.op = "twice") =>
          /\ RefAffine(curve.p) = RefAdd(RefAffine(curve.prev), RefAffine(curve.prev))
          /\ curve.prev = CurvePoint_ZERO => curve.p = CurvePoint_ZERO
    /\ curve.pc = "twicedYZero" => curve.p = CurvePoint_ZERO

\* C7 happens: add was given the point it holds in another projective
\* scaling and doubled it.
C7_Witness ==
    /\ curve.pc = "point"
    /\ curve.op = "add"
    /\ curve.prev # CurvePoint_ZERO
    /\ curve.other # curve.prev
    /\ RefAffine(curve.other) = RefAffine(curve.prev)
    /\ curve.p # CurvePoint_ZERO

(***************************************************************************)
(* FieldInt: a caller constructs a FieldInt from a Uint256 and applies the *)
(* arithmetic operations to it, at most MaxFieldSteps calls in a row.      *)
(***************************************************************************)
MaxFieldSteps == 2

\* Any Uint256 may be given to the constructor: values below, at and above
\* the modulus 16776937.
ConstructorValues == {0, 1, 2, 4096, 8388469, 12345678, 16776935, 16776936,
                      16776937, 16776938, 16777215}

\* Operands are FieldInts, that is, values < 16776937.
FieldOperands == {0, 1, 3, 65535, 8388469, 16776936}

InitField ==
    /\ field = [pc |-> "start"]
    /\ ecdsa = Idle
    /\ curve = Idle
    /\ recip = Idle
    /\ uint = Idle
    /\ trace = Idle
    /\ sha = Idle
    /\ b58 = Idle
    /\ xkey = Idle
    /\ hdr = Idle

FieldReady == field.pc = "value" /\ field.steps < MaxFieldSteps

\* The state after an operation op that took this from prev to res.
FieldAfter(op, other, res, ok) ==
    [pc |-> "value", op |-> op, prev |-> field.a, other |-> other, a |-> res,
     assertsHold |-> ok, steps |-> field.steps + 1]

\* FieldInt a(val)
FieldNew(v) ==
    /\ field.pc = "start"
    /\ \E res \in {FieldInt_new(FromInt(v))} :
          field' = [pc |-> "value", op |-> "new", prev |-> FromInt(v), other |-> FI_ZERO,
                    a |-> res, assertsHold |-> TRUE, steps |-> 0]
    /\ UNCHANGED <<ecdsa, curve, recip, uint, trace, sha, b58, xkey, hdr>>

\* a.add(other)
FieldAdd(v) ==
    /\ FieldReady
    /\ \E res \in {FieldInt_add(field.a, FromInt(v))} :
       \E ok \in {TRUE} :
          field' = FieldAfter("add", FromInt(v), res, ok)
    /\ UNCHANGED <<ecdsa, curve, recip, uint, trace, sha, b58, xkey, hdr>>

\* a.subtract(other)
FieldSubtract(v) ==
    /\ FieldReady
    /\ \E res \in {FieldInt_subtract(field.a, FromInt(v))} :
       \E ok \in {TRUE} :
          field' = FieldAfter("subtract", FromInt(v), res, ok)
    /\ UNCHANGED <<ecdsa, curve, recip, uint, trace, sha, b58, xkey, hdr>>

\* a.multiply2()
FieldMultiply2 ==
    /\ FieldReady
    /\ \E res \in {FieldInt_multiply2(field.a)} :
       \E ok \in {TRUE} :
          field' = FieldAfter("multiply2", FI_ZERO, res, ok)
    /\ UNCHANGED <<ecdsa, curve, recip, uint, trace, sha, b58, xkey, hdr>>

\* a.square()
FieldSquare ==
    /\ FieldReady
    /\ \E res \in {FieldInt_square(field.a)} :
       \E ok \in {FieldInt_multiplyAsserts(field.a, field.a)} :
          field' = FieldAfter("square", FI_ZERO, res, ok)
    /\ UNCHANGED <<ecdsa, curve, recip, uint, trace, sha, b58, xkey, hdr>>

\* a.multiply(other)
FieldMultiply(v) ==
    /\ FieldReady
    /\ \E res \in {FieldInt_multiply(field.a, FromInt(v))} :
       \E ok \in {FieldInt_multiplyAsserts(field.a, FromInt(v))} :
          field' = FieldAfter("multiply", FromInt(v), res, ok)
    /\ UNCHANGED <<ecdsa, curve, recip, uint, trace, sha, b58, xkey, hdr>>

\* a.reciprocal()
FieldReciprocal ==
    /\ FieldReady
    /\ \E res \in {FieldInt_reciprocal(field.a)} :
       \E ok \in {Uint256_reciprocalRun(field.a, MODULUS).ok} :
          field' = FieldAfter("reciprocal", FI_ZERO, res, ok)
    /\ UNCHANGED <<ecdsa, curve, recip, uint, trace, sha, b58, xkey, hdr>>

\* a.replace(other, enable)
FieldReplace(v, enable) ==
    /\ FieldReady
    /\ \E res \in {FieldInt_replace(field.a, FromInt(v), enable)} :
          field' = FieldAfter(IF enable = 1 THEN "replace" ELSE "keep", FromInt(v), res, TRUE)
    /\ UNCHANGED <<ecdsa, curve, recip, uint, trace, sha, b58, xkey, hdr>>

NextField ==
    \/ \E v \in ConstructorValues : FieldNew(v)
    \/ \E v \in FieldOperands : FieldAdd(v)
    \/ \E v \in FieldOperands : FieldSubtract(v)
    \/ FieldMultiply2
    \/ FieldSquare
    \/ \E v \in FieldOperands : FieldMultiply(v)
    \/ FieldReciprocal
    \/ \E v \in FieldOperands, enable \in {0, 1} : FieldReplace(v, enable)

SpecField == InitField /\ [][NextField]_vars

(***************************************************************************)
(* Properties of FieldInt, checked under SpecField.                        *)
(***************************************************************************)
\* C8: every FieldInt is < p after construction from any Uint256 and after
\* add, subtract, multiply2, square, multiply, reciprocal and replace
\* applied to operands < p.
C8_BelowModulus ==
    field.pc = "value" => ToInt(field.a) < RefP

\* C8 happens: the constructor was given a Uint256 >= p and left a
\* value < p.
C8_Witness ==
    /\ field.pc = "value"
    /\ field.op = "new"
    /\ ToInt(field.prev) >= RefP
    /\ ToInt(field.a) < RefP

\* C9: for a, b in [0, p), add, subtract, multiply2, multiply and square
\* leave (a+b) mod p, (a-b) mod p, 2a mod p, a*b mod p and a^2 mod p, so
\* that addition and multiplication are associative and commutative,
\* multiplication distributes over addition, and a + (-a) = 0.
C9_FieldArithmetic ==
    field.pc = "value" =>
        /\ field.assertsHold
        /\ field.op = "add" =>
              /\ ToInt(field.a) = RefAddMod(ToInt(field.prev), ToInt(field.other), RefP)
              /\ field.a = FieldInt_add(field.other, field.prev)
              /\ \A v \in FieldOperands :
                    FieldInt_add(field.a, FromInt(v))
                       = FieldInt_add(field.prev, FieldInt_add(field.other, FromInt(v)))
        /\ field.op = "subtract" =>
              /\ ToInt(field.a) = RefSubMod(ToInt(field.prev), ToInt(field.other), RefP)
              /\ FieldInt_add(field.a, field.other) = field.prev
              /\ FieldInt_add(field.prev, FieldInt_subtract(FI_ZERO, field.prev)) = FI_ZERO
        /\ field.op = "multiply2" =>
              ToInt(field.a) = RefAddMod(ToInt(field.prev), ToInt(field.prev), RefP)
        /\ field.op = "multiply" =>
              /\ ToInt(field.a) = RefMulMod(ToInt(field.prev), ToInt(field.other), RefP)
              /\ field.a = FieldInt_multiply(field.other, field.prev)
              /\ \A v \in FieldOperands :
                    /\ FieldInt_multiply(field.a, FromInt(v))
                          = FieldInt_multiply(field.prev,
                                              FieldInt_multiply(field.other, FromInt(v)))
                    /\ FieldInt_multiply(field.prev, FieldInt_add(field.other, FromInt(v)))
                          = FieldInt_add(field.a, FieldInt_multiply(field.prev, FromInt(v)))
        /\ field.op = "square" =>
              ToInt(field.a) = RefMulMod(ToInt(field.prev), ToInt(field.prev), RefP)

\* C9 happens: two operands whose product needs the full reduction were
\* multiplied.
C9_Witness ==
    /\ field.pc = "value"
    /\ field.op = "multiply"
    /\ ToInt(field.prev) = RefP - 1
    /\ ToInt(field.other) = RefP - 1
    /\ ToInt(field.a) = 1

(***************************************************************************)
(* Uint256::reciprocal: a caller inverts a value modulo an odd modulus,    *)
(* and may invert the result again.                                        *)
(***************************************************************************)
\* Odd moduli > 1: primes and composites, of one, two and three words, the
\* curve order, the field modulus and the largest value of the width.
Moduli == {3, 9, 15, 255, 257, 65535, 16769953, 16776937, 16777215}

\* Values < modulus, coprime to it or not.
ValuesBelow(modulus) ==
    {v \in {0, 1, 2, 3, 5, 6, 7, 10, modulus \div 3, modulus \div 2, (modulus \div 2) + 1,
            modulus - 2, modulus - 1} : v < modulus}

InitRecip ==
    /\ recip = [pc |-> "start"]
    /\ ecdsa = Idle
    /\ curve = Idle
    /\ field = Idle
    /\ uint = Idle
    /\ trace = Idle
    /\ sha = Idle
    /\ b58 = Idle
    /\ xkey = Idle
    /\ hdr = Idle

\* The state after value.reciprocal(modulus) ran to its end.
RecipAfter(pc, self, modulus, res) ==
    [pc |-> pc, self |-> self, modulus |-> modulus, value |-> res.value,
     assertsHold |-> res.ok]

\* value.reciprocal(modulus).  When an assertion fails, a build with
\* assertions aborts and one without goes on.
Reciprocal(v, modulus) ==
    /\ recip.pc = "start"
    /\ \E res \in {Uint256_reciprocalRun(FromInt(v), FromInt(modulus))} :
          \/ recip' = RecipAfter("done", FromInt(v), FromInt(modulus), res)
          \/ /\ ~res.ok
             /\ recip' = [pc |-> "aborted", self |-> FromInt(v), modulus |-> FromInt(modulus)]
    /\ UNCHANGED <<ecdsa, curve, field, uint, trace, sha, b58, xkey, hdr>>

\* FieldInt(value).reciprocal()
ReciprocalInField(v) ==
    /\ recip.pc = "start"
    /\ v < ToInt(MODULUS)
    /\ \E res \in {FieldInt_reciprocal(FromInt(v))} :
       \E ok \in {Uint256_reciprocalRun(FromInt(v), MODULUS).ok} :
          recip' = [pc |-> "field", self |-> FromInt(v), modulus |-> MODULUS,
                    value |-> res, assertsHold |-> ok]
    /\ UNCHANGED <<ecdsa, curve, field, uint, trace, sha, b58, xkey, hdr>>

\* value.reciprocal(modulus) once more, on the result of the first call.
ReciprocalAgain ==
    /\ recip.pc = "done"
    /\ \E res \in {Uint256_reciprocalRun(recip.value, recip.modulus)} :
          \/ recip' = RecipAfter("again", recip.value, recip.modulus, res)
          \/ /\ ~res.ok
             /\ recip' = [pc |-> "aborted", self |-> recip.value, modulus |-> recip.modulus]
    /\ UNCHANGED <<ecdsa, curve, field, uint, trace, sha, b58, xkey, hdr>>

\* value.reciprocal(modulus) followed through its loop: the call has passed
\* the entry assertion and set up x, y, a, b and halfModulus.
ReciprocalEnter(v, modulus) ==
    /\ recip.pc = "start"
    /\ Uint256_reciprocalPre(FromInt(v), FromInt(modulus))
    /\ recip' = [pc |-> "loop", self |-> FromInt(v), modulus |-> FromInt(modulus),
                 halfModulus |-> Uint256_halfModulus(FromInt(modulus)), i |-> 0,
                 st |-> Uint256_reciprocalInit(FromInt(v), FromInt(modulus))]
    /\ UNCHANGED <<ecdsa, curve, field, uint, trace, sha, b58, xkey, hdr>>

\* One iteration of the loop of reciprocal.
ReciprocalIterate ==
    /\ recip.pc = "loop"
    /\ recip.i < NUM_WORDS * WORD_BITS * 2
    /\ \E next \in {Uint256_reciprocalStep(recip.st, recip.halfModulus, recip.modulus)} :
          \/ recip' = [recip EXCEPT !.i = recip.i + 1, !.st = next]
          \/ /\ ~next.ok
             /\ recip' = [pc |-> "aborted", self |-> recip.self, modulus |-> recip.modulus]
    /\ UNCHANGED <<ecdsa, curve, field, uint, trace, sha, b58, xkey, hdr>>

\* The end of reciprocal after the last iteration: the final assertion and
\* this->replace(a, *this != ZERO).
ReciprocalLeave ==
    /\ recip.pc = "loop"
    /\ recip.i = NUM_WORDS * WORD_BITS * 2
    /\ \E ok \in {Uint256_reciprocalAssert(recip.st, recip.modulus)} :
          \/ recip' = [pc |-> "finished", self |-> recip.self, modulus |-> recip.modulus,
                       st |-> recip.st,
                       value |-> Uint256_replace(recip.self, recip.st.a,
                                     BoolToInt(Uint256_ne(recip.self, Uint256_ZERO))),
                       assertsHold |-> ok]
          \/ /\ ~ok
             /\ recip' = [pc |-> "aborted", self |-> recip.self, modulus |-> recip.modulus]
    /\ UNCHANGED <<ecdsa, curve, field, uint, trace, sha, b58, xkey, hdr>>

NextRecip ==
    \/ \E modulus \in Moduli : \E v \in ValuesBelow(modulus) : Reciprocal(v, modulus)
    \/ \E v \in ValuesBelow(ToInt(MODULUS)) : ReciprocalInField(v)
    \/ ReciprocalAgain
    \/ \E modulus \in Moduli : \E v \in ValuesBelow(modulus) : ReciprocalEnter(v, modulus)
    \/ ReciprocalIterate
    \/ ReciprocalLeave

SpecRecip == InitRecip /\ [][NextRecip]_vars

(***************************************************************************)
(* Properties of Uint256::reciprocal, checked under SpecRecip.             *)
(***************************************************************************)
\* The result the claim gives for inverting self modulo modulus, when it
\* gives one: 0 for 0, the inverse in [1, modulus) for a coprime value.
ReciprocalAsClaimed(self, modulus, value) ==
    /\ self = 0 => value = 0
    /\ RefGcd(self, modulus) = 1 =>
          /\ 1 <= value /\ value < modulus
          /\ RefMulMod(self, value, modulus) = 1 % modulus
          /\ value = RefInverse(self, modulus)

\* C10: for an odd modulus m > 1 and a < m, reciprocal leaves 0 when
\* a = 0 and the unique v in [1, m) with a*v mod m = 1 when gcd(a, m) = 1;
\* FieldInt::reciprocal is this with m = p.
C10_Reciprocal ==
    /\ recip.pc \in {"done", "again", "field"} =>
          /\ ReciprocalAsClaimed(ToInt(recip.self), ToInt(recip.modulus), ToInt(recip.value))
          /\ (ToInt(recip.self) = 0 \/ RefGcd(ToInt(recip.self), ToInt(recip.modulus)) = 1)
                => recip.assertsHold
    /\ recip.pc = "aborted" =>
          /\ ToInt(recip.self) # 0
          /\ RefGcd(ToInt(recip.self), ToInt(recip.modulus)) # 1

(***************************************************************************)
(* Uint256: a caller holding two distinct Uint256 objects (the code        *)
(* asserts &other != this) and an enable flag calls one member function.   *)
(***************************************************************************)
\* Values at the word boundaries, around 2^23 and around the field modulus.
UintValues ==
    {0, 1, 2, 255, 256, 65535, 65536, 8388607, 8388608, 16776937, 16777214, 16777215}

InitUint ==
    /\ uint \in [pc : {"input"}, self : {FromInt(v) : v \in UintValues},
                 other : {FromInt(v) : v \in UintValues}, enable : {0, 1}]
    /\ ecdsa = Idle /\ curve = Idle /\ field = Idle /\ recip = Idle
    /\ trace = Idle
    /\ sha = Idle
    /\ b58 = Idle
    /\ xkey = Idle
    /\ hdr = Idle

\* The objects after the call op: value is *this, otherAfter is other, ret
\* is what the call returned.
UintAfter(op, value, otherAfter, ret) ==
    [pc |-> "done", op |-> op, self |-> uint.self, other |-> uint.other,
     enable |-> uint.enable, value |-> value, otherAfter |-> otherAfter, ret |-> ret]

\* self.add(other, enable)
UintAdd ==
    /\ uint.pc = "input"
    /\ \E res \in {Uint256_add(uint.self, uint.other, uint.enable)} :
          uint' = UintAfter("add", res.value, uint.other, res.ret)
    /\ UNCHANGED <<ecdsa, curve, field, recip, trace, sha, b58, xkey, hdr>>

\* self.subtract(other, enable)
UintSubtract ==
    /\ uint.pc = "input"
    /\ \E res \in {Uint256_subtract(uint.self, uint.other, uint.enable)} :
          uint' = UintAfter("subtract", res.value, uint.other, res.ret)
    /\ UNCHANGED <<ecdsa, curve, field, recip, trace, sha, b58, xkey, hdr>>

\* self.subtract(other, enable) after self.add(other, enable)
UintSubtractBack ==
    /\ uint.pc = "done" /\ uint.op = "add"
    /\ \E res \in {Uint256_subtract(uint.value, uint.other, uint.enable)} :
          uint' = [pc |-> "back", self |-> uint.self, other |-> uint.other,
                   enable |-> uint.enable, sum |-> uint.value, carry |-> uint.ret,
                   value |-> res.value, ret |-> res.ret]
    /\ UNCHANGED <<ecdsa, curve, field, recip, trace, sha, b58, xkey, hdr>>

\* self.shiftLeft1()
UintShiftLeft1 ==
    /\ uint.pc = "input"
    /\ \E res \in {Uint256_shiftLeft1(uint.self)} :
          uint' = UintAfter("shiftLeft1", res.value, uint.other, res.ret)
    /\ UNCHANGED <<ecdsa, curve, field, recip, trace, sha, b58, xkey, hdr>>

\* self.shiftRight1(enable)
UintShiftRight1 ==
    /\ uint.pc = "input"
    /\ \E res \in {Uint256_shiftRight1(uint.self, uint.enable)} :
          uint' = UintAfter("shiftRight1", res, uint.other, 0)
    /\ UNCHANGED <<ecdsa, curve, field, recip, trace, sha, b58, xkey, hdr>>

\* self.replace(other, enable)
UintReplace ==
    /\ uint.pc = "input"
    /\ \E res \in {Uint256_replace(uint.self, uint.other, uint.enable)} :
          uint' = UintAfter("replace", res, uint.other, 0)
    /\ UNCHANGED <<ecdsa, curve, field, recip, trace, sha, b58, xkey, hdr>>

\* self.swap(other, enable)
UintSwap ==
    /\ uint.pc = "input"
    /\ \E res \in {Uint256_swap(uint.self, uint.other, uint.enable)} :
          uint' = UintAfter("swap", res.this, res.other, 0)
    /\ UNCHANGED <<ecdsa, curve, field, recip, trace, sha, b58, xkey, hdr>>

\* FieldInt::replace on two field elements
UintFieldReplace ==
    /\ uint.pc = "input"
    /\ Uint256_lt(uint.self, MODULUS) /\ Uint256_lt(uint.other, MODULUS)
    /\ \E res \in {FieldInt_replace(uint.self, uint.other, uint.enable)} :
          uint' = UintAfter("FieldInt::replace", res, uint.other, 0)
    /\ UNCHANGED <<ecdsa, curve, field, recip, trace, sha, b58, xkey, hdr>>

\* CurvePoint::replace on two points whose coordinates are built from the
\* two values
UintPointReplace ==
    /\ uint.pc = "input"
    /\ Uint256_lt(uint.self, MODULUS) /\ Uint256_lt(uint.other, MODULUS)
    /\ \E p \in {[x |-> uint.self, y |-> uint.other, z |-> FI_ONE]} :
       \E q \in {[x |-> uint.other, y |-> FI_ZERO, z |-> uint.self]} :
       \E res \in {CurvePoint_replace(p, q, uint.enable)} :
          uint' = [pc |-> "done", op |-> "CurvePoint::replace", self |-> p, other |-> q,
                   enable |-> uint.enable, value |-> res, otherAfter |-> q, ret |-> 0]
    /\ UNCHANGED <<ecdsa, curve, field, recip, trace, sha, b58, xkey, hdr>>

\* The six comparison operators on (self, other)
UintCompare ==
    /\ uint.pc = "input"
    /\ uint' = [pc |-> "compared", self |-> uint.self, other |-> uint.other,
                eq |-> Uint256_eq(uint.self, uint.other),
                ne |-> Uint256_ne(uint.self, uint.other),
                lt |-> Uint256_lt(uint.self, uint.other),
                le |-> Uint256_le(uint.self, uint.other),
                gt |-> Uint256_gt(uint.self, uint.other),
                ge |-> Uint256_ge(uint.self, uint.other)]
    /\ UNCHANGED <<ecdsa, curve, field, recip, trace, sha, b58, xkey, hdr>>

NextUint ==
    \/ UintAdd
    \/ UintSubtract
    \/ UintSubtractBack
    \/ UintShiftLeft1
    \/ UintShiftRight1
    \/ UintReplace
    \/ UintSwap
    \/ UintFieldReplace
    \/ UintPointReplace
    \/ UintCompare

SpecUint == InitUint /\ [][NextUint]_vars

(***************************************************************************)
(* Properties of the Uint256 member functions, checked under SpecUint.     *)
(***************************************************************************)
\* C11: with enable = 1, add leaves (self + other) mod 2^256 and returns
\* the carry, subtract leaves (self - other) mod 2^256 and returns the
\* borrow, shiftLeft1 leaves 2*self mod 2^256 and returns the old top bit,
\* shiftRight1 leaves floor(self / 2); subtracting b after adding b
\* restores a.
C11_AddSubtractShift ==
    /\ (uint.pc = "done" /\ uint.op = "add" /\ uint.enable = 1) =>
          /\ ToInt(uint.value) = (ToInt(uint.self) + ToInt(uint.other)) % 2^TotalBits
          /\ uint.ret = BoolToInt(ToInt(uint.self) + ToInt(uint.other) >= 2^TotalBits)
    /\ (uint.pc = "done" /\ uint.op = "subtract" /\ uint.enable = 1) =>
          /\ ToInt(uint.value) = (ToInt(uint.self) - ToInt(uint.other)) % 2^TotalBits
          /\ uint.ret = BoolToInt(ToInt(uint.self) < ToInt(uint.other))
    /\ (uint.pc = "done" /\ uint.op = "shiftLeft1") =>
          /\ ToInt(uint.value) = (2 * ToInt(uint.self)) % 2^TotalBits
          /\ uint.ret = ToInt(uint.self) \div 2^(TotalBits - 1)
    /\ (uint.pc = "done" /\ uint.op = "shiftRight1" /\ uint.enable = 1) =>
          ToInt(uint.value) = ToInt(uint.self) \div 2
    /\ uint.pc = "back" =>
          /\ uint.value = uint.self
          /\ uint.ret = uint.carry

\* An addition that wrapped around 2^256 was undone by the subtraction.
C11_Witness ==
    /\ uint.pc = "back" /\ uint.enable = 1
    /\ uint.carry = 1 /\ uint.ret = 1
    /\ ToInt(uint.sum) < ToInt(uint.self)
    /\ uint.value = uint.self

\* C12: with enable = 0, add, subtract, shiftRight1, replace and swap
\* (and FieldInt and CurvePoint replace) leave self and other unchanged and
\* add and subtract return 0; with enable = 1, replace makes self equal to
\* other and swap exchanges the two values.
C12_EnableFrame ==
    uint.pc = "done" =>
       /\ (uint.enable = 0 /\ uint.op # "shiftLeft1") =>
             /\ uint.value = uint.self
             /\ uint.otherAfter = uint.other
             /\ uint.op \in {"add", "subtract"} => uint.ret = 0
       /\ (uint.enable = 1 /\ uint.op \in {"replace", "FieldInt::replace", "CurvePoint::replace"}) =>
             /\ uint.value = uint.other
             /\ uint.otherAfter = uint.other
       /\ (uint.enable = 1 /\ uint.op = "swap") =>
             /\ uint.value = uint.other
             /\ uint.otherAfter = uint.self

\* swap with enable = 0 was called on two different values and changed
\* neither.
C12_Witness ==
    /\ uint.pc = "done" /\ uint.op = "swap" /\ uint.enable = 0
    /\ uint.self # uint.other
    /\ uint.value = uint.self /\ uint.otherAfter = uint.other

\* C13: operator< is true exactly when self is the smaller unsigned
\* integer, operator== exactly when all words are equal, and exactly one
\* of a < b, a == b, a > b holds.
C13_Comparison ==
    uint.pc = "compared" =>
       /\ uint.lt = (ToInt(uint.self) < ToInt(uint.other))
       /\ uint.eq = (\A i \in Indices : uint.self[i] = uint.other[i])
       /\ uint.gt = (ToInt(uint.self) > ToInt(uint.other))
       /\ BoolToInt(uint.lt) + BoolToInt(uint.eq) + BoolToInt(uint.gt) = 1

\* self < other although the low word of self is the larger one.
C13_Witness ==
    /\ uint.pc = "compared"
    /\ uint.self[0] > uint.other[0]
    /\ ToInt(uint.self) < ToInt(uint.other)
    /\ uint.lt /\ ~uint.eq /\ ~uint.gt

(***************************************************************************)
(* Two runs of CurvePoint::multiply, or of Uint256::reciprocal, on inputs  *)
(* chosen independently, each recorded with the calls it made.             *)
(***************************************************************************)
TracePoints ==
    {CurvePoint_G, CurvePoint_ZERO,
     [x |-> FromInt(5531353), y |-> FromInt(7858571), z |-> FI_ONE]}

\* Scalars with all windows zero, some zero, none zero.
TraceScalars == {0, 11, 16777215}

\* (value, modulus) pairs for reciprocal: value zero, coprime, not coprime.
TraceInverses ==
    {<<0, 3>>, <<2, 9>>, <<6, 15>>, <<7, 255>>, <<65000, 65535>>, <<1, 16769953>>,
     <<12345, 16769953>>, <<5, 16776937>>, <<8388469, 16776937>>, <<16776936, 16776937>>}

InitTrace ==
    /\ trace = [pc |-> "start"]
    /\ ecdsa = Idle /\ curve = Idle /\ field = Idle /\ recip = Idle /\ uint = Idle
    /\ sha = Idle
    /\ b58 = Idle
    /\ xkey = Idle
    /\ hdr = Idle

\* What is recorded of a run: the operands, the value left in *this and
\* the calls made.
RunOf(self, n, res) == [self |-> self, n |-> n, result |-> res.result, ops |-> res.ops]

\* The first run of multiply.
TraceMultiply(self, n) ==
    /\ trace.pc = "start"
    /\ \E res \in {CurvePoint_multiplyTraced(self, FromInt(n))} :
          trace' = [pc |-> "one", fn |-> "multiply",
                    first |-> RunOf(self, FromInt(n), [result |-> res.p, ops |-> res.ops])]
    /\ UNCHANGED <<ecdsa, curve, field, recip, uint, sha, b58, xkey, hdr>>

\* The second run of multiply.
TraceMultiplyAgain(self, n) ==
    /\ trace.pc = "one" /\ trace.fn = "multiply"
    /\ \E res \in {CurvePoint_multiplyTraced(self, FromInt(n))} :
          trace' = [pc |-> "two", fn |-> "multiply", first |-> trace.first,
                    second |-> RunOf(self, FromInt(n), [result |-> res.p, ops |-> res.ops])]
    /\ UNCHANGED <<ecdsa, curve, field, recip, uint, sha, b58, xkey, hdr>>

\* The first run of reciprocal.
TraceReciprocal(self, modulus) ==
    /\ trace.pc = "start"
    /\ \E res \in {Uint256_reciprocalTraced(FromInt(self), FromInt(modulus))} :
          trace' = [pc |-> "one", fn |-> "reciprocal",
                    first |-> RunOf(FromInt(self), FromInt(modulus),
                                    [result |-> res.value, ops |-> res.ops])]
    /\ UNCHANGED <<ecdsa, curve, field, recip, uint, sha, b58, xkey, hdr>>

\* The second run of reciprocal.
TraceReciprocalAgain(self, modulus) ==
    /\ trace.pc = "one" /\ trace.fn = "reciprocal"
    /\ \E res \in {Uint256_reciprocalTraced(FromInt(self), FromInt(modulus))} :
          trace' = [pc |-> "two", fn |-> "reciprocal", first |-> trace.first,
                    second |-> RunOf(FromInt(self), FromInt(modulus),
                                     [result |-> res.value, ops |-> res.ops])]
    /\ UNCHANGED <<ecdsa, curve, field, recip, uint, sha, b58, xkey, hdr>>

NextTrace ==
    \/ \E self \in TracePoints : \E n \in TraceScalars : TraceMultiply(self, n)
    \/ \E self \in TracePoints : \E n \in TraceScalars : TraceMultiplyAgain(self, n)
    \/ \E pair \in TraceInverses : TraceReciprocal(pair[1], pair[2])
    \/ \E pair \in TraceInverses : TraceReciprocalAgain(pair[1], pair[2])

SpecTrace == InitTrace /\ [][NextTrace]_vars

(***************************************************************************)
(* Properties of the call sequences, checked under SpecTrace.              *)
(***************************************************************************)
Repeat(op, k) == [i \in 1..k |-> op]

\* The calls of the windows hi-1 down to 0 as the claim gives them: 16
\* conditional replaces and one add per window, 4 doublings between two
\* windows.
RECURSIVE WindowOpsAsClaimed(_)
WindowOpsAsClaimed(windows) ==
    IF windows = 0 THEN <<>>
    ELSE Repeat("replace", 16) \o <<"add">>
         \o (IF windows > 1 THEN Repeat("twice", 4) ELSE <<>>)
         \o WindowOpsAsClaimed(windows - 1)

\* One doubling and 13 additions for the table, then one window for every
\* 4 bits of the scalar (64 windows of a 256-bit scalar).
MultiplyOpsAsClaimed ==
    <<"twice">> \o Repeat("add", 13) \o WindowOpsAsClaimed((NUM_WORDS * WORD_BITS) \div 4)

\* The number of loop iterations in a call sequence of reciprocal.
Iterations(ops) == Cardinality({i \in DOMAIN ops : ops[i] = "loop"})

\* C14: two runs of CurvePoint::multiply on different scalars and points
\* make the identical sequence of calls (1 doubling and 13 additions for
\* the table, then per window 16 conditional replaces and one add, with 4
\* doublings between windows), and Uint256::reciprocal always makes
\* 2 * (bits of a Uint256) iterations (512 for 256 bits) with the same
\* sequence of calls.  The runs recorded are runs of the two functions:
\* they leave the values multiply and reciprocal leave.
C14_SameOperations ==
    /\ trace.pc = "two" => trace.first.ops = trace.second.ops
    /\ (trace.pc \in {"one", "two"} /\ trace.fn = "multiply") =>
          trace.first.ops = MultiplyOpsAsClaimed
    /\ (trace.pc \in {"one", "two"} /\ trace.fn = "reciprocal") =>
          Iterations(trace.first.ops) = 2 * NUM_WORDS * WORD_BITS
    /\ (trace.pc = "one" /\ trace.fn = "multiply") =>
          trace.first.result = CurvePoint_multiply(trace.first.self, trace.first.n)
    /\ (trace.pc = "one" /\ trace.fn = "reciprocal") =>
          trace.first.result = Uint256_reciprocal(trace.first.self, trace.first.n)

\* Two runs of multiply on different points and scalars, one scalar with
\* all its windows zero, gave different points by the same calls.
C14_Witness ==
    /\ trace.pc = "two" /\ trace.fn = "multiply"
    /\ trace.first.self # trace.second.self
    /\ trace.first.n = Uint256_ZERO /\ trace.second.n # Uint256_ZERO
    /\ trace.first.result # trace.second.result
    /\ trace.first.ops = trace.second.ops
    /\ Len(trace.first.ops) > 2^TABLE_BITS

(***************************************************************************)
(* Reference point decompression: the square root modulo p by the          *)
(* Tonelli-Shanks algorithm, and the point of the curve with a given X and *)
(* a given parity of Y.                                                    *)
(***************************************************************************)
RECURSIVE RefPow(_, _, _)
RefPow(b, e, m) ==
    IF e = 0 THEN 1
    ELSE Let({IF e % 2 = 1 THEN RefMulMod(RefMulMod(h, h, m), b, m) ELSE RefMulMod(h, h, m)
              : h \in {RefPow(b, e \div 2, m)}})

RefIsSquare(a) == a % RefP = 0 \/ RefPow(a, (RefP - 1) \div 2, RefP) = 1

RefNonSquare == CHOOSE z \in 2..50 : ~RefIsSquare(z)

RECURSIVE RefTwos(_)
RefTwos(k) == IF k % 2 = 1 THEN 0 ELSE 1 + RefTwos(k \div 2)

\* The least i with t^(2^i) = 1.
RECURSIVE RefOrderLog(_)
RefOrderLog(t) == IF t = 1 THEN 0 ELSE 1 + RefOrderLog(RefMulMod(t, t, RefP))

RECURSIVE RefTonelli(_, _, _, _)
RefTonelli(m, c, t, r) ==
    IF t = 1 THEN r
    ELSE Let({RefTonelli(RefOrderLog(t), RefMulMod(b, b, RefP),
                         RefMulMod(t, RefMulMod(b, b, RefP), RefP), RefMulMod(r, b, RefP))
              : b \in {RefPow(c, 2^(m - RefOrderLog(t) - 1), RefP)}})

\* A square root of the square a modulo p.
RefSqrt(a) ==
    IF a % RefP = 0 THEN 0
    ELSE Let({RefTonelli(RefTwos(RefP - 1), RefPow(RefNonSquare, q, RefP),
                         RefPow(a, q, RefP), RefPow(a, (q + 1) \div 2, RefP))
              : q \in {(RefP - 1) \div 2^RefTwos(RefP - 1)}})

\* The number whose big-endian bytes are bytes[from .. to].
RECURSIVE RefBigEndian(_, _, _)
RefBigEndian(bytes, from, to) ==
    IF to < from THEN 0 ELSE 256 * RefBigEndian(bytes, from, to - 1) + bytes[to]

\* The point a compressed encoding stands for: no point when
\* X^3 + B is not a square.
RefDecompress(out) ==
    Let({Let({IF ~RefIsSquare(rhs) THEN RefInfinity
              ELSE Let({RefPoint(x, IF y0 % 2 = out[0] - 2 THEN y0 ELSE (RefP - y0) % RefP)
                        : y0 \in {RefSqrt(rhs)}})
         : rhs \in {RefAddMod(RefMulMod(RefMulMod(x, x, RefP), x, RefP), RefB, RefP)}})
         : x \in {RefBigEndian(out, 1, NUM_WORDS * (WORD_BITS \div 8))}})

\* C20: for a normalized point toCompressedPoint writes 1 + the byte length
\* of a coordinate bytes (33 in the full width): byte 0 is 0x02 when Y is
\* even and 0x03 when Y is odd, the other bytes are X big-endian; two
\* normalized points of the curve with the same output are equal, since the
\* reference decompressor gets the point back from the output.
C20_CompressedPoint ==
    curve.pc = "compressed" =>
        /\ DOMAIN curve.out = 0..(NUM_WORDS * (WORD_BITS \div 8))
        /\ curve.out[0] = (IF ToInt(curve.p.y) % 2 = 0 THEN 2 ELSE 3)
        /\ \A k \in 1..(NUM_WORDS * (WORD_BITS \div 8)) :
              curve.out[k]
                 = (ToInt(curve.p.x) \div 256^(NUM_WORDS * (WORD_BITS \div 8) - k)) % 256
        /\ CurvePoint_isOnCurve(curve.p) =>
              RefNormalized(RefDecompress(curve.out)) = curve.p

\* C20 happens: a point of the curve with odd Y and an X of more than two
\* bytes that normalize or privateExponentToPublicPoint produced was
\* compressed.
C20_Witness ==
    /\ curve.pc = "compressed"
    /\ CurvePoint_isOnCurve(curve.p)
    /\ curve.out[0] = 3
    /\ curve.out[1] # 0
    /\ curve.out[1] # curve.out[3]
    /\ curve.p \notin StartPoints

(***************************************************************************)
(* Sha256: a caller constructs a hasher, appends a message to it in pieces *)
(* of its choice, and asks for the hash.                                   *)
(***************************************************************************)
MaxMessageLen == 130

\* The pieces a caller appends: empty, one byte, and lengths around the
\* padding threshold and the block length.
ChunkLens == {0, 1, 55, 56, 63, 64, 65, 128}

MessageSeeds == {0, 171}

\* The messages: byte k of a message is a function of its seed and of k.
\* MessageOf(seed, from, n) is the bytes from + 1 .. from + n.
RECURSIVE MessageOf(_, _, _)
MessageOf(seed, from, n) ==
    IF n = 0 THEN <<>>
    ELSE IF n = 1 THEN <<(seed + 37 * (from + 1) + (from + 1) \div 64) % 256>>
    ELSE MessageOf(seed, from, n \div 2) \o MessageOf(seed, from + n \div 2, n - n \div 2)

InitSha ==
    /\ sha \in {[pc |-> "hashing", seed |-> seed, msg |-> <<>>, appends |-> 0,
                 hasher |-> Sha256_new] : seed \in MessageSeeds}
    /\ ecdsa = Idle
    /\ curve = Idle
    /\ field = Idle
    /\ recip = Idle
    /\ uint = Idle
    /\ trace = Idle
    /\ b58 = Idle
    /\ xkey = Idle
    /\ hdr = Idle

\* hasher.append(bytes, len) with the next len bytes of the message.
ShaAppend(len) ==
    /\ sha.pc = "hashing"
    /\ Len(sha.msg) + len <= MaxMessageLen
    /\ \E bytes \in {MessageOf(sha.seed, Len(sha.msg), len)} :
       \E res \in {Sha256_append(sha.hasher, bytes)} :
          sha' = [pc |-> "hashing", seed |-> sha.seed, msg |-> sha.msg \o bytes,
                  appends |-> IF sha.appends < 2 THEN sha.appends + 1 ELSE 2,
                  hasher |-> res]
    /\ UNCHANGED <<ecdsa, curve, field, recip, uint, trace, b58, xkey, hdr>>

\* hasher.getHash()
ShaGetHash ==
    /\ sha.pc = "hashing"
    /\ \E res \in {Sha256_getHashStateful(sha.hasher)} :
          sha' = [pc |-> "hashed", seed |-> sha.seed, msg |-> sha.msg,
                  appends |-> sha.appends, hasher |-> res.self, hash |-> res.hash,
                  before |-> sha.hasher]
    /\ UNCHANGED <<ecdsa, curve, field, recip, uint, trace, b58, xkey, hdr>>

NextSha ==
    \/ \E len \in ChunkLens : ShaAppend(len)
    \/ ShaGetHash

SpecSha == InitSha /\ [][NextSha]_vars

\* The whole blocks of a message.
WholeBlocks(msg) == SubSeq(msg, 1, Len(msg) - (Len(msg) % SHA256_BLOCK_LEN))

\* C19: however the message was split across append calls, the blocks
\* handed to compress are the whole 64-byte blocks of the message, in order,
\* getHash() returns what the one-shot Sha256::getHash returns on the whole
\* message, and bufferLen is in [0, 64) after every append.
C19_SplitIndependent ==
    /\ sha.pc = "hashing" =>
          /\ sha.hasher.bufferLen \in 0..(SHA256_BLOCK_LEN - 1)
          /\ sha.hasher.bufferLen = Len(sha.msg) % SHA256_BLOCK_LEN
          /\ sha.hasher.length = Len(sha.msg)
          /\ sha.hasher.fed = WholeBlocks(sha.msg)
          /\ sha.hasher.state
                = Sha256_compress(Sha256_INITIAL_STATE, WholeBlocks(sha.msg),
                                  Len(WholeBlocks(sha.msg)))
          /\ \A k \in 1..sha.hasher.bufferLen :
                sha.hasher.buffer[k] = sha.msg[Len(WholeBlocks(sha.msg)) + k]
    /\ sha.pc = "hashed" =>
          /\ sha.hash = Sha256_getHash(sha.msg)
          /\ sha.hasher.bufferLen = 0
          /\ SubSeq(sha.hasher.fed, 1, Len(sha.before.fed)) = sha.before.fed

\* C19 happens: a message of more than one block, whose length leaves no
\* room for the length field in its last block, was appended in two or more
\* pieces and hashed; getHash() compressed two more blocks.
C19_Witness ==
    /\ sha.pc = "hashed"
    /\ sha.appends = 2
    /\ Len(sha.msg) > SHA256_BLOCK_LEN
    /\ Len(sha.msg) % SHA256_BLOCK_LEN = 56
    /\ Len(sha.before.fed) = SHA256_BLOCK_LEN
    /\ Len(sha.hasher.fed) = 3 * SHA256_BLOCK_LEN

(***************************************************************************)
(* Base58Check: a caller encodes a public-key hash, a private key or an    *)
(* extended private key, or holds a string from elsewhere (the encoding of *)
(* some bytes, or an encoded string with a part changed), and decodes it.  *)
(***************************************************************************)
\* The bytes of CurvePoint::ORDER and of ORDER - 1.
OrderBytes ==
    <<255, 255, 255, 255, 255, 255, 255, 255, 255, 255, 255, 255, 255, 255, 255, 254,
       186, 174, 220, 230, 175, 72, 160, 59, 191, 210, 94, 140, 208, 54, 65, 65>>

OrderMinusOneBytes ==
    <<255, 255, 255, 255, 255, 255, 255, 255, 255, 255, 255, 255, 255, 255, 255, 254,
       186, 174, 220, 230, 175, 72, 160, 59, 191, 210, 94, 140, 208, 54, 65, 64>>

PubkeyHashes ==
    {Zeros(20), Repeated(255, 20), Zeros(19) \o <<1>>, MessageOf(7, 0, 20)}

PubkeyVersions == {0, 5, 111, 255}

PrivateKeyBytes ==
    {Zeros(32), Zeros(31) \o <<1>>, Zeros(31) \o <<9>>, Zeros(30) \o <<1, 0>>,
     Repeated(255, 32), OrderBytes, OrderMinusOneBytes, MessageOf(3, 0, 32)}

PrivateKeyVersions == {0, 128, 255}

\* Extended private keys: the default key (scalar 0), and keys with the
\* scalars 1, n - 1 and another in [1, n), at the ends of the ranges of
\* depth and index.
ExtendedKeys ==
    {ExtendedPrivateKey_new(U256_ZERO, Zeros(32), 0, <<0, 0>>, Zeros(4)),
     ExtendedPrivateKey_new(U256_fromBytes(Zeros(31) \o <<1>>), Zeros(32), 0, <<0, 0>>, Zeros(4)),
     ExtendedPrivateKey_new(U256_fromBytes(OrderMinusOneBytes), Repeated(255, 32), 255,
                            <<65535, 65535>>, Repeated(255, 4)),
     ExtendedPrivateKey_new(U256_fromBytes(MessageOf(3, 0, 32)), MessageOf(5, 0, 32), 1,
                            <<32768, 0>>, MessageOf(9, 0, 4)),
     ExtendedPrivateKey_new(U256_fromBytes(MessageOf(11, 0, 32)), MessageOf(13, 0, 32), 3,
                            <<32767, 65535>>, MessageOf(17, 0, 4))}

\* The bytes followed by their checksum, and followed by another 4 bytes.
WithChecksum(data) == data \o SubSeq(Sha256_getDoubleHash(data), 1, 4)

WithBadChecksum(data) ==
    Let({[sum EXCEPT ![Len(sum)] = (sum[Len(sum)] + 1) % 256] : sum \in {WithChecksum(data)}})

\* Byte arrays whose encodings the decoders must refuse: a bad checksum, a
\* value of one byte more or less, a leading zero byte more, a compressed
\* marker other than 1, another header, a nonzero byte before the key, and
\* keys outside [1, n).
ForgedBytes(kind) ==
    CASE kind = "pubkeyHash" ->
            {WithBadChecksum(<<0>> \o MessageOf(7, 0, 20)),
             WithChecksum(<<1>> \o MessageOf(7, 0, 21)),
             WithChecksum(<<0, 0>> \o MessageOf(7, 0, 20)),
             WithChecksum(<<5>> \o MessageOf(7, 0, 19))}
      [] kind = "privateKey" ->
            {WithBadChecksum(<<128>> \o MessageOf(3, 0, 32)),
             WithBadChecksum(<<128>> \o MessageOf(3, 0, 32) \o <<1>>),
             WithChecksum(<<128>> \o MessageOf(3, 0, 32) \o <<2>>),
             WithChecksum(<<0>> \o Zeros(32) \o <<0>>),
             WithChecksum(<<128>> \o MessageOf(3, 0, 32) \o <<1, 1>>),
             WithChecksum(<<128>> \o MessageOf(3, 0, 31))}
      [] kind = "extendedPrivateKey" ->
            {WithBadChecksum(<<4, 136, 173, 228, 1>> \o MessageOf(5, 0, 40)
                                \o <<0>> \o MessageOf(3, 0, 32)),
             WithChecksum(<<4, 136, 173, 229, 1>> \o MessageOf(5, 0, 40)
                             \o <<0>> \o MessageOf(3, 0, 32)),
             WithChecksum(<<4, 136, 173, 228, 1>> \o MessageOf(5, 0, 40)
                             \o <<1>> \o MessageOf(3, 0, 32)),
             WithChecksum(<<4, 136, 173, 228, 1>> \o MessageOf(5, 0, 40)
                             \o <<0>> \o OrderBytes),
             WithChecksum(<<4, 136, 173, 228, 1>> \o MessageOf(5, 0, 40)
                             \o <<0>> \o Repeated(255, 32)),
             WithChecksum(<<4, 136, 173, 228, 1>> \o MessageOf(5, 0, 40)
                             \o <<0>> \o Zeros(32))}

Base58Kinds == {"pubkeyHash", "privateKey", "extendedPrivateKey"}

\* The string lengths each decoder accepts.
MinLen(kind) ==
    CASE kind = "pubkeyHash" -> 25 [] kind = "privateKey" -> 38 [] kind = "extendedPrivateKey" -> 111

MaxLen(kind) ==
    CASE kind = "pubkeyHash" -> 35 [] kind = "privateKey" -> 52 [] kind = "extendedPrivateKey" -> 111

\* Characters that are not in the alphabet: 0, l, and a character above 127.
BadChars == {48, 108, 200}

\* Ways to change a string: a character replaced by one outside the
\* alphabet, at the front, in the middle or at the end; the string cut
\* below the least length; extended above the greatest; emptied; and the
\* count of leading '1's changed, to one more, or to one fewer (to two more
\* where there is none).
Damages ==
    ({"front", "middle", "end"} \X BadChars)
        \cup ({"cut", "extend", "empty", "prepend", "drop"} \X {49})

Damaged(str, kind, damage) ==
    CASE damage[1] = "front" -> [str EXCEPT ![1] = damage[2]]
      [] damage[1] = "middle" -> [str EXCEPT ![Len(str) \div 2] = damage[2]]
      [] damage[1] = "end" -> [str EXCEPT ![Len(str)] = damage[2]]
      [] damage[1] = "cut" -> SubSeq(str, 1, MinLen(kind) - 1)
      [] damage[1] = "extend" -> str \o Repeated(Base58Check_ALPHABET[58], MaxLen(kind) + 1 - Len(str))
      [] damage[1] = "empty" -> <<>>
      [] damage[1] = "prepend" -> <<damage[2]>> \o str
      [] damage[1] = "drop" ->
            IF str[1] = damage[2] THEN Tail(str) ELSE <<damage[2], damage[2]>> \o str

InitBase58 ==
    /\ b58 = [pc |-> "start"]
    /\ ecdsa = Idle
    /\ curve = Idle
    /\ field = Idle
    /\ recip = Idle
    /\ uint = Idle
    /\ trace = Idle
    /\ sha = Idle
    /\ xkey = Idle
    /\ hdr = Idle

\* Base58Check::pubkeyHashToBase58Check(pubkeyHash, version, outStr)
Base58PubkeyHashTo(pubkeyHash, version) ==
    /\ b58.pc = "start"
    /\ \E res \in {Base58Check_pubkeyHashToBase58Check(pubkeyHash, version)} :
          b58' = [pc |-> "string", kind |-> "pubkeyHash", how |-> "encoder",
                  in |-> [pubkeyHash |-> pubkeyHash, version |-> version],
                  raw |-> WithChecksum(<<version>> \o pubkeyHash), str |-> res]
    /\ UNCHANGED <<ecdsa, curve, field, recip, uint, trace, sha, xkey, hdr>>

\* Base58Check::privateKeyToBase58Check(privKey, version, isCompressed, outStr)
Base58PrivateKeyTo(keyBytes, version, isCompressed) ==
    /\ b58.pc = "start"
    /\ \E res \in {Base58Check_privateKeyToBase58Check(U256_fromBytes(keyBytes), version,
                                                      isCompressed)} :
          b58' = [pc |-> "string", kind |-> "privateKey", how |-> "encoder",
                  in |-> [privKey |-> U256_fromBytes(keyBytes), version |-> version,
                          isCompressed |-> isCompressed],
                  raw |-> WithChecksum(<<version>> \o keyBytes
                                          \o (IF isCompressed THEN <<1>> ELSE <<>>)),
                  str |-> res]
    /\ UNCHANGED <<ecdsa, curve, field, recip, uint, trace, sha, xkey, hdr>>

\* Base58Check::extendedPrivateKeyToBase58Check(key, outStr)
Base58ExtendedPrivateKeyTo(key) ==
    /\ b58.pc = "start"
    /\ \E res \in {Base58Check_extendedPrivateKeyToBase58Check(key)} :
          b58' = [pc |-> "string", kind |-> "extendedPrivateKey", how |-> "encoder",
                  in |-> key,
                  raw |-> WithChecksum(<<4, 136, 173, 228, key.depth>> \o key.parentPubkeyHash
                             \o U32_storeBig(key.index) \o key.chainCode \o <<0>>
                             \o U256_getBigEndianBytes(key.privateKey)),
                  str |-> res]
    /\ UNCHANGED <<ecdsa, curve, field, recip, uint, trace, sha, xkey, hdr>>

\* A string from elsewhere: the Base58 encoding of the bytes raw.
Base58Forged(kind, raw) ==
    /\ b58.pc = "start"
    /\ b58' = [pc |-> "string", kind |-> kind, how |-> "forged", in |-> <<>>, raw |-> raw,
               str |-> Base58Check_encode(raw)]
    /\ UNCHANGED <<ecdsa, curve, field, recip, uint, trace, sha, xkey, hdr>>

\* A string an encoder wrote, with a part changed.
Base58Damaged(damage) ==
    /\ b58.pc = "string"
    /\ b58.how = "encoder"
    /\ b58' = [pc |-> "string", kind |-> b58.kind, how |-> "damaged", in |-> <<>>,
               raw |-> <<>>, str |-> Damaged(b58.str, b58.kind, damage)]
    /\ UNCHANGED <<ecdsa, curve, field, recip, uint, trace, sha, xkey, hdr>>

\* The state after a decoder returned ret, with the outputs prior before
\* the call and out after it.
Base58After(prior, res) ==
    [pc |-> "decoded", kind |-> b58.kind, how |-> b58.how, in |-> b58.in, raw |-> b58.raw,
     str |-> b58.str, prior |-> prior, ret |-> res.ret, out |-> res.out]

\* Base58Check::pubkeyHashFromBase58Check(addrStr, outPubkeyHash, outVersion)
Base58PubkeyHashFrom ==
    /\ b58.pc = "string"
    /\ b58.kind = "pubkeyHash"
    /\ \E prior \in {[pubkeyHash |-> Repeated(238, 20), version |-> 238]} :
       \E res \in {Base58Check_pubkeyHashFromBase58Check(b58.str, prior)} :
          b58' = Base58After(prior, res)
    /\ UNCHANGED <<ecdsa, curve, field, recip, uint, trace, sha, xkey, hdr>>

\* Base58Check::privateKeyFromBase58Check(wifStr, outPrivKey, outVersion,
\* outIsCompressed)
Base58PrivateKeyFrom(priorIsCompressed) ==
    /\ b58.pc = "string"
    /\ b58.kind = "privateKey"
    /\ \E prior \in {[privKey |-> U256_fromBytes(Repeated(238, 32)), version |-> 238,
                      isCompressed |-> priorIsCompressed]} :
       \E res \in {Base58Check_privateKeyFromBase58Check(b58.str, prior)} :
          b58' = Base58After(prior, res)
    /\ UNCHANGED <<ecdsa, curve, field, recip, uint, trace, sha, xkey, hdr>>

\* Base58Check::extendedPrivateKeyFromBase58Check(xprvStr, outKey)
Base58ExtendedPrivateKeyFrom ==
    /\ b58.pc = "string"
    /\ b58.kind = "extendedPrivateKey"
    /\ \E prior \in {ExtendedPrivateKey_new(U256_fromBytes(Repeated(238, 32)),
                                            Repeated(238, 32), 238, <<238, 238>>,
                                            Repeated(238, 4))} :
       \E res \in {Base58Check_extendedPrivateKeyFromBase58Check(b58.str, prior)} :
          b58' = Base58After(prior, res)
    /\ UNCHANGED <<ecdsa, curve, field, recip, uint, trace, sha, xkey, hdr>>

NextBase58 ==
    \/ \E pubkeyHash \in PubkeyHashes, version \in PubkeyVersions :
          Base58PubkeyHashTo(pubkeyHash, version)
    \/ \E keyBytes \in PrivateKeyBytes, version \in PrivateKeyVersions, isCompressed \in BOOLEAN :
          Base58PrivateKeyTo(keyBytes, version, isCompressed)
    \/ \E key \in ExtendedKeys : Base58ExtendedPrivateKeyTo(key)
    \/ \E kind \in Base58Kinds : \E raw \in ForgedBytes(kind) : Base58Forged(kind, raw)
    \/ \E damage \in Damages : Base58Damaged(damage)
    \/ Base58PubkeyHashFrom
    \/ \E priorIsCompressed \in BOOLEAN : Base58PrivateKeyFrom(priorIsCompressed)
    \/ Base58ExtendedPrivateKeyFrom

SpecBase58 == InitBase58 /\ [][NextBase58]_vars

\* Lexicographic order on byte arrays of one length: the order of the
\* numbers they are the big-endian bytes of.
RefBytesLess(a, b) ==
    \E k \in 1..Len(a) : a[k] < b[k] /\ \A j \in 1..(k - 1) : a[j] = b[j]

\* C16: what an encoder wrote decodes to what was encoded: the hash and the
\* version for every 20-byte hash; the key, the version and the compressed
\* flag for every 256-bit key and both values of the flag; depth, index,
\* parent fingerprint, chain code and scalar for an extended key with a
\* scalar in [1, n).
C16_RoundTrip ==
    (b58.pc = "decoded" /\ b58.how = "encoder") =>
        /\ b58.kind = "pubkeyHash" => b58.ret /\ b58.out = b58.in
        /\ b58.kind = "privateKey" =>
              /\ b58.ret
              /\ b58.out = b58.in
              /\ U256_getBigEndianBytes(b58.out.privKey) = SubSeq(b58.raw, 2, 33)
        /\ (b58.kind = "extendedPrivateKey"
              /\ ~Base58Check_isZero(SubSeq(b58.raw, 47, 78))
              /\ RefBytesLess(SubSeq(b58.raw, 47, 78), OrderBytes)) =>
                 b58.ret /\ b58.out = b58.in

\* C16 happens: a compressed private key with version 0 and a key with
\* leading zero bytes came back, and so did an extended key with the
\* greatest scalar, depth and index.
C16_Witness ==
    /\ b58.pc = "decoded"
    /\ b58.how = "encoder"
    /\ b58.ret
    /\ \/ /\ b58.kind = "privateKey"
          /\ b58.in.isCompressed
          /\ ~b58.prior.isCompressed
          /\ b58.in.version = 0
          /\ b58.in.privKey = U256_fromBytes(Zeros(31) \o <<9>>)
       \/ /\ b58.kind = "extendedPrivateKey"
          /\ b58.in.depth = 255
          /\ b58.in.index = <<65535, 65535>>

\* The string is the encoding of bytes the decoder of its kind must refuse,
\* or is too short, too long, or has a character outside the alphabet.
Refusable ==
    \/ Len(b58.str) < MinLen(b58.kind)
    \/ Len(b58.str) > MaxLen(b58.kind)
    \/ \E i \in 1..Len(b58.str) : \A k \in 1..58 : Base58Check_ALPHABET[k] # b58.str[i]
    \/ /\ b58.how # "damaged"
       /\ \/ b58.kind = "pubkeyHash" /\ Len(b58.raw) # 25
          \/ b58.kind = "privateKey" /\ Len(b58.raw) \notin {37, 38}
          \/ b58.kind = "extendedPrivateKey" /\ Len(b58.raw) # 82
          \/ SubSeq(b58.raw, Len(b58.raw) - 3, Len(b58.raw))
                # SubSeq(Sha256_getDoubleHash(SubSeq(b58.raw, 1, Len(b58.raw) - 4)), 1, 4)
          \/ b58.kind = "privateKey" /\ Len(b58.raw) = 38 /\ b58.raw[34] # 1
          \/ /\ b58.kind = "extendedPrivateKey"
             /\ Len(b58.raw) = 82
             /\ \/ SubSeq(b58.raw, 1, 4) # <<4, 136, 173, 228>>
                \/ b58.raw[46] # 0
                \/ Base58Check_isZero(SubSeq(b58.raw, 47, 78))
                \/ ~RefBytesLess(SubSeq(b58.raw, 47, 78), OrderBytes)

\* C17: a decoder returns false and leaves its outputs as they were when
\* the string is shorter or longer than it accepts (25..35, 38..52, 111),
\* has a character outside the alphabet, stands for a value that does not
\* fit or has leading '1's that do not match the leading zero bytes, has a
\* wrong checksum, a compression marker other than 1, another header than
\* xprv, a nonzero byte before the key, or a key outside [1, n).
C17_Refused ==
    (b58.pc = "decoded" /\ Refusable) => (~b58.ret /\ b58.out = b58.prior)

\* C17 happens: strings with a good checksum were refused for the marker
\* and for a key equal to n, and a string for a missing leading '1'.
C17_Witness ==
    /\ b58.pc = "decoded"
    /\ b58.how = "forged"
    /\ Len(b58.str) \in MinLen(b58.kind)..MaxLen(b58.kind)
    /\ ~b58.ret
    /\ \/ b58.kind = "privateKey" /\ Len(b58.raw) = 38 /\ b58.raw[34] = 2
                                  /\ b58.prior.isCompressed
       \/ b58.kind = "extendedPrivateKey" /\ SubSeq(b58.raw, 47, 78) = OrderBytes
       \/ b58.kind = "pubkeyHash" /\ Len(b58.raw) = 24

\* C18: the encoders write 25 to 35, 38 to 52 and exactly 111 characters of
\* the alphabet, which with the terminating NUL fit the buffers of 36, 53
\* and 112 characters.
C18_StringLengths ==
    (b58.pc = "string" /\ b58.how = "encoder") =>
        /\ \A i \in 1..Len(b58.str) : \E k \in 1..58 : Base58Check_ALPHABET[k] = b58.str[i]
        /\ b58.kind = "pubkeyHash" => Len(b58.str) \in 25..35 /\ Len(b58.str) + 1 <= 36
        /\ b58.kind = "privateKey" => Len(b58.str) \in 38..52 /\ Len(b58.str) + 1 <= 53
        /\ b58.kind = "extendedPrivateKey" => Len(b58.str) = 111 /\ Len(b58.str) + 1 <= 112

\* C18 happens: the encoders wrote the shortest and the longest strings of
\* the private keys, and an extended key.
C18_Witness ==
    /\ b58.pc = "string"
    /\ b58.how = "encoder"
    /\ \/ b58.kind = "privateKey" /\ Len(b58.str) = 38 /\ ~b58.in.isCompressed
       \/ b58.kind = "privateKey" /\ Len(b58.str) = 52 /\ b58.in.isCompressed
       \/ b58.kind = "extendedPrivateKey" /\ b58.in.depth = 255

(***************************************************************************)
(* ExtendedPrivateKey::getChildKey: a parent key is constructed, then one  *)
(* child is derived from it.                                               *)
(***************************************************************************)
\* The big-endian bytes of a number below 2^TotalBits.
BytesOf(n) == ToSeq([k \in 1..HASH_LEN |-> (n \div 2^(8 * (HASH_LEN - k))) % 256], HASH_LEN)

ParentScalars == {1, 7, RefN - 1}

ParentDepths == {0, 1, 255}

ParentChainCodes == {BytesOf(66051)}

ChildIndices == {<<0, 0>>, <<32767, 65535>>, <<32768, 0>>, <<65535, 65535>>}

\* The left halves of the results of Sha512::getHmac that are tried: with the
\* parent scalars above they make IL + d below n, equal to n, between n and
\* 2^TotalBits, and above 2^TotalBits, and IL at and above n.
LeftHalves == {0, 1, RefN - 7, RefN - 1, RefN, 2^TotalBits - 1}

RightHalves == {BytesOf(11259375)}

InitChildKey ==
    /\ xkey = [pc |-> "start"]
    /\ ecdsa = Idle /\ curve = Idle /\ field = Idle /\ recip = Idle /\ uint = Idle
    /\ trace = Idle /\ sha = Idle /\ b58 = Idle
    /\ hdr = Idle

\* ExtendedPrivateKey(privKey, chcd, dep, idx, ppkh) with 0 < privKey < ORDER.
ChildKeyNew(d, chcd, dep, idx) ==
    /\ xkey.pc = "start"
    /\ CurvePoint_privateExponentToPublicPointAssert(FromInt(d))
    /\ xkey' = [pc |-> "parent",
                key |-> ExtendedPrivateKey_newWithPublicKey(FromInt(d), chcd, dep, idx, Zeros(4))]
    /\ UNCHANGED <<ecdsa, curve, field, recip, uint, trace, sha, b58, hdr>>

\* key.getChildKey(index), where Sha512::getHmac gives hash.
ChildKeyGetChildKey(index, hash) ==
    /\ xkey.pc = "parent"
    /\ xkey' = [pc |-> "child", parent |-> xkey.key, index |-> index,
                hmacKey |-> xkey.key.chainCode,
                hmacMsg |-> ToSeq(ExtendedPrivateKey_msg(xkey.key, index), HASH_LEN + 5),
                hash |-> hash,
                key |-> ExtendedPrivateKey_getChildKey(xkey.key, index, hash)]
    /\ UNCHANGED <<ecdsa, curve, field, recip, uint, trace, sha, b58, hdr>>

NextChildKey ==
    \/ \E d \in ParentScalars, chcd \in ParentChainCodes, dep \in ParentDepths :
           ChildKeyNew(d, chcd, dep, <<0, 7>>)
    \/ \E index \in ChildIndices, il \in LeftHalves, ir \in RightHalves :
           ChildKeyGetChildKey(index, BytesOf(il) \o ir)

SpecChildKey == InitChildKey /\ [][NextChildKey]_vars

\* Not code: what getChildKey has to give for the parent, index and HMAC
\* result of the state, with the child's depth being the parent's depth + 1
\* as an integer, or (wrap) as a uint8_t.
ChildKeyAsSpecified(wrap) ==
    xkey.pc = "child" =>
        LET d == ToInt(xkey.parent.privateKey)
            i == xkey.index
            iBytes == <<i[1] \div 256, i[1] % 256, i[2] \div 256, i[2] % 256>>
            IL == RefBigEndian(xkey.hash, 1, HASH_LEN)
            IR == SubSeq(xkey.hash, HASH_LEN + 1, 2 * HASH_LEN)
            pub == RefMul(d, RefG)
            data == IF i[1] >= 32768 THEN <<0>> \o BytesOf(d) \o iBytes
                    ELSE <<2 + (pub.y % 2)>> \o BytesOf(pub.x) \o iBytes
        IN /\ d \in 1..(RefN - 1)
           /\ xkey.hmacKey = xkey.parent.chainCode
           /\ xkey.hmacMsg = data
           /\ IF IL >= RefN \/ (IL + d) % RefN = 0
              THEN /\ ToInt(xkey.key.privateKey) = 0
                   /\ xkey.key.depth = 0
                   /\ xkey.key = ExtendedPrivateKey_default
              ELSE /\ ToInt(xkey.key.privateKey) = (IL + d) % RefN
                   /\ ToInt(xkey.key.privateKey) \in 1..(RefN - 1)
                   /\ RefAffine(xkey.key.publicKey) = RefMul((IL + d) % RefN, RefG)
                   /\ xkey.key.chainCode = IR
                   /\ xkey.key.index = i
                   /\ xkey.key.depth = IF wrap THEN (xkey.parent.depth + 1) % 256
                                       ELSE xkey.parent.depth + 1

\* C15: getChildKey(i) on a parent with scalar d in [1, n) hands
\* Sha512::getHmac the chain code as key and the data 0x00 || d || i for
\* i >= 2^31, compressed(d*G) || i otherwise; with IL >= n or
\* (IL + d) mod n = 0 it returns the default key, otherwise the child with
\* privateKey (IL + d) mod n in [1, n), chainCode IR, index i and depth
\* parent depth + 1.
C15_ChildKey == ChildKeyAsSpecified(FALSE)

\* The same with the child's depth (parent depth + 1) mod 2^8.
ChildKeyDepthModulo == ChildKeyAsSpecified(TRUE)

\* A child of a parent at depth 255: its depth is 0.
ChildKeyDepthWraps ==
    /\ xkey.pc = "child"
    /\ xkey.parent.depth = 255
    /\ xkey.key.privateKey # Uint256_ZERO
    /\ xkey.key.depth = 0

\* The calls of sign that get as far as adding the hash: the nonce is in
\* [1, n) (r = 0 does not occur on the model's curve).
SignAddsHash ==
    /\ ecdsa.pc \in {"signed", "aborted"}
    /\ ecdsa.pc = "aborted" => ecdsa.during = "sign"
    /\ ToInt(ecdsa.nonce) \in 1..(RefN - 1)

\* C22: in sign, s is below n after the hash is added and n is subtracted
\* once, for every hash, and so no call of sign or verify fails the
\* assertion x < n at the entry of multiplyModOrder (nor any other).
C22_SumBelowOrder ==
    /\ SignAddsHash =>
           Uint256_lt(Ecdsa_signSum(ecdsa.privateKey, ecdsa.msgHash, ecdsa.nonce), ORDER)
    /\ ecdsa.pc # "aborted"
    /\ ecdsa.pc \in {"signed", "verified", "checked"} => ecdsa.assertsHold

\* The same for the hashes below n only.
SumBelowOrderForSmallHash ==
    (SignAddsHash /\ HashOf(ecdsa.msgHash) < RefN)
        => /\ Uint256_lt(Ecdsa_signSum(ecdsa.privateKey, ecdsa.msgHash, ecdsa.nonce), ORDER)
           /\ ecdsa.pc = "signed"
           /\ ecdsa.assertsHold

\* C23: multiplyModOrder(x, y) with x < n leaves (x * y) mod n in x for
\* every y of the width, also y >= n, and the accumulator is below n after
\* every iteration (no assertion of the function fails).
C23_MultiplyModOrder ==
    /\ ecdsa.pc = "multiplied" =>
          /\ ToInt(ecdsa.value) = RefMulMod(ToInt(ecdsa.x), ToInt(ecdsa.y), RefN)
          /\ ecdsa.assertsHold
    /\ ~(ecdsa.pc = "aborted" /\ ecdsa.during = "multiplyModOrder")

\* C23 happens: a product with y >= n that is reduced to a nonzero value
\* different from x * (y - n) taken as integers.
C23_Witness ==
    /\ ecdsa.pc = "multiplied"
    /\ ToInt(ecdsa.y) > RefN
    /\ ToInt(ecdsa.x) > 2
    /\ ToInt(ecdsa.value) = RefMulMod(ToInt(ecdsa.x), ToInt(ecdsa.y), RefN)
    /\ ToInt(ecdsa.value) # ToInt(ecdsa.x)
    /\ ToInt(ecdsa.value) # 0

\* Not code: HMAC-SHA-256 by its definition, H((K ^ opad) || H((K ^ ipad) || m))
\* for a key of at most one block, as a number: its leading HASH_LEN bytes.
RefHmacNonce(privateKey, msgHash) ==
    Let({Let({
        RefBigEndian(Sha256_getHash([i \in 1..SHA256_BLOCK_LEN |-> U8_xor(padded[i], 92)]
                                    \o Sha256_getHash([i \in 1..SHA256_BLOCK_LEN |->
                                                          U8_xor(padded[i], 54)] \o msg)),
                     1, HASH_LEN)
         : padded \in {BytesOf(ToInt(privateKey)) \o Zeros(SHA256_BLOCK_LEN - HASH_LEN)}})
         : msg \in {BytesOf(HashOf(msgHash))}})

\* C21: signWithHmacNonce(d, m) returns the result and the outputs of
\* sign(d, m, k) for k = HMAC-SHA-256(key = d big endian, msg = m), fails
\* where that call of sign fails, and gives the same again when it is
\* called again with the same d and m.
C21_HmacNonce ==
    /\ ecdsa.pc \in {"hmacSigned", "hmacSignedAgain"} =>
          Let({/\ ecdsa.signRet = res.ret
               /\ ecdsa.outR = res.outR
               /\ ecdsa.outS = res.outS
               /\ ecdsa.assertsHold = res.ok
               /\ ~ecdsa.signRet => ecdsa.outR = ecdsa.prevR /\ ecdsa.outS = ecdsa.prevS
               : res \in {Ecdsa_sign(ecdsa.privateKey, ecdsa.msgHash,
                                     FromInt(RefHmacNonce(ecdsa.privateKey, ecdsa.msgHash)),
                                     ecdsa.prevR, ecdsa.prevS)}})
    /\ ecdsa.pc = "hmacSignedAgain" =>
          /\ ecdsa.signRet = ecdsa.firstRet
          /\ ecdsa.outR = ecdsa.firstR
          /\ ecdsa.outS = ecdsa.firstS
    /\ (ecdsa.pc = "aborted" /\ ecdsa.during = "signWithHmacNonce") =>
          ~Ecdsa_sign(ecdsa.privateKey, ecdsa.msgHash,
                      FromInt(RefHmacNonce(ecdsa.privateKey, ecdsa.msgHash)),
                      InitialOutR, InitialOutS).ok

\* C21 happens: a second call returned true with the signature of the first.
C21_Witness ==
    /\ ecdsa.pc = "hmacSignedAgain"
    /\ ecdsa.signRet
    /\ ecdsa.outR # InitialOutR
    /\ ecdsa.outR = ecdsa.firstR
    /\ ToInt(ecdsa.privateKey) = 12345
    /\ HashOf(ecdsa.msgHash) = 11259375

\* A call returned false because its one nonce is n or more, and the
\* outputs are as before the call.
HmacNonceRefused ==
    /\ ecdsa.pc = "hmacSignedAgain"
    /\ ~ecdsa.signRet
    /\ ~ecdsa.firstRet
    /\ ecdsa.outR = InitialOutR
    /\ RefHmacNonce(ecdsa.privateKey, ecdsa.msgHash) >= RefN

\* The call is one the claim is about: self = 0 or gcd(self, modulus) = 1
\* (the modulus is odd and above 1 and self below it by the entry
\* assertion), and the modulus is not one of those left out.
ReciprocalInScope(leftOut) ==
    /\ recip.pc \in {"loop", "finished", "aborted"}
    /\ ToInt(recip.self) = 0 \/ RefGcd(ToInt(recip.self), ToInt(recip.modulus)) = 1
    /\ ToInt(recip.modulus) \notin leftOut

\* Not code: the loop invariant and the state after the loop.  x is
\* congruent to a * self (it is the modulus itself, not 0, until the first
\* swap), y equals b * self mod m.
ReciprocalLoopInvariant(leftOut) ==
    ReciprocalInScope(leftOut) =>
        /\ recip.pc # "aborted"
        /\ Let({/\ ToInt(recip.st.x) % 2 = 1
                /\ ToInt(recip.st.a) < m
                /\ ToInt(recip.st.b) < m
                /\ ToInt(recip.st.x) <= m
                /\ ToInt(recip.st.x) % m = RefMulMod(ToInt(recip.st.a), ToInt(recip.self), m)
                /\ ToInt(recip.st.y) = RefMulMod(ToInt(recip.st.b), ToInt(recip.self), m)
                /\ recip.st.ok
                /\ recip.pc = "finished" =>
                      /\ ToInt(recip.st.y) = 0
                      /\ ToInt(recip.st.x) = IF ToInt(recip.self) # 0 THEN 1 ELSE m
                      /\ recip.assertsHold
                : m \in {ToInt(recip.modulus)}})

\* C24: in reciprocal with an odd modulus m > 1, self < m and self = 0 or
\* coprime to m, at the start of every iteration x is odd, a < m, b < m,
\* x = a * self mod m and y = b * self mod m; after the loop y = 0 and x is
\* 1 (self # 0) or m (self = 0), so the final assertion holds.
C24_LoopInvariant == ReciprocalLoopInvariant({})

\* The same for every modulus but 2^TotalBits - 1.
LoopInvariantBelowMaximum == ReciprocalLoopInvariant({2^TotalBits - 1})

\* An iteration in the middle of the loop at which a and b are both nonzero.
LoopInvariantHappens ==
    /\ recip.pc = "loop"
    /\ recip.i = NUM_WORDS * WORD_BITS
    /\ ToInt(recip.modulus) = RefN
    /\ ToInt(recip.st.a) > 1
    /\ ToInt(recip.st.b) > 1
    /\ ToInt(recip.st.y) > 0

\* Not code: a - b on numbers given as 2 * NUM_WORDS words, low word first:
\* the words of the difference from word i on, and the borrow out of the top.
RECURSIVE RefWordsMinus(_, _, _, _)
RefWordsMinus(a, b, i, borrow) ==
    IF i = NUM_WORDS * 2 THEN [words |-> <<>>, borrow |-> borrow]
    ELSE Let({[words |-> <<(a[i] - b[i] - borrow) % WordMod>> \o rest.words,
               borrow |-> rest.borrow]
              : rest \in {RefWordsMinus(a, b, i + 1,
                                        IF a[i] - b[i] - borrow < 0 THEN 1 ELSE 0)}})

\* The operands of the last multiplication: square() multiplies by itself.
MultipliedBy == IF field.op = "square" THEN field.prev ELSE field.other

\* C25: in FieldInt::multiply with both operands below p, the carry out of
\* product1 (3 * NUM_WORDS words) is 0, the borrow out of product2
\* (2 * NUM_WORDS words) is 0, every per-word carry and borrow is at most
\* BARRETT_C + 2 (0x3D3 in the code), and product0 - product2 is in
\* [0, 2p): the NUM_WORDS + 1 words of difference hold it exactly, and one
\* conditional subtraction of p gives the product modulo p.
C25_BarrettBounds ==
    (field.pc = "value" /\ field.op \in {"multiply", "square"}) =>
        Let({Let({Let({Let({Let({Let({
            /\ ToInt(field.prev) < RefP /\ ToInt(MultipliedBy) < RefP
            /\ r1.carry = 0 /\ r1.ok
            /\ r2.borrow = 0 /\ r2.ok
            /\ r3.ok
            /\ exact.borrow = 0
            /\ \A i \in (NUM_WORDS + 2)..(NUM_WORDS * 2) : exact.words[i] = 0
            /\ exact.words[NUM_WORDS + 1] <= 1
            /\ low < 2 * RefP
            /\ \A i \in 0..NUM_WORDS : r3.difference[i] = exact.words[i + 1]
            /\ ToInt(field.a) = IF low >= RefP THEN low - RefP ELSE low
            /\ ToInt(field.a) = RefMulMod(ToInt(field.prev), ToInt(MultipliedBy), RefP)
            /\ field.assertsHold
             : low \in {IF exact.words[NUM_WORDS + 1] > 1 THEN 2 * RefP
                        ELSE exact.words[NUM_WORDS + 1] * 2^TotalBits
                             + ToInt([i \in Indices |-> exact.words[i + 1]])}})
             : exact \in {RefWordsMinus(product0, r2.product, 0, 0)}})
             : r3 \in {FieldInt_difference(product0, r2.product)}})
             : r2 \in {FieldInt_product2(r1.product)}})
             : r1 \in {FieldInt_product1(product0)}})
             : product0 \in {FieldInt_product0(field.prev, MultipliedBy)}})

\* C25 happens: (p - 1) * (p - 1), the largest product, was computed and
\* gave 1.
C25_Witness ==
    /\ field.pc = "value"
    /\ field.op = "multiply"
    /\ ToInt(field.prev) = RefP - 1
    /\ ToInt(field.other) = RefP - 1
    /\ ToInt(field.a) = 1

(***************************************************************************)
(* Aliased operands, checked under SpecCurve.                              *)
(***************************************************************************)
\* C26: P.add(P), with one object as both operands, leaves 2P, the very
\* triple twice() leaves; x.multiply(x) on one object leaves the square;
\* and in add (with one object or two), twice and isOnCurve no call of
\* Uint256::add or Uint256::subtract gets the same object as both operands.
C26_Aliasing ==
    /\ (curve.pc = "point" /\ curve.op = "addSelf") =>
          /\ curve.distinct
          /\ curve.p = CurvePoint_twice(curve.prev)
          /\ curve.p = CurvePoint_twiceOfObject(curve.prev).point
          /\ RefAffine(curve.p) = RefAdd(RefAffine(curve.prev), RefAffine(curve.prev))
    /\ (curve.pc = "point" /\ curve.op = "add") =>
          /\ CurvePoint_addInPlace(curve.prev, curve.other, FALSE).distinct
          /\ CurvePoint_addInPlace(curve.prev, curve.other, FALSE).point = curve.p
    /\ (curve.pc = "point" /\ curve.op = "twice") =>
          /\ CurvePoint_twiceOfObject(curve.prev).distinct
          /\ CurvePoint_twiceOfObject(curve.prev).point = curve.p
    /\ curve.pc \in {"start", "point"} =>
          /\ CurvePoint_isOnCurveOfObject(curve.p).distinct
          /\ CurvePoint_isOnCurveOfObject(curve.p).value = CurvePoint_isOnCurve(curve.p)
          /\ \A f \in {curve.p.x, curve.p.y, curve.p.z} :
                ToInt(FieldInt_multiplyBySelf(f)) = RefMulMod(ToInt(f), ToInt(f), RefP)

\* C26 happens: P.add(P) on a point that is not the identity left a point
\* that is not the identity.
C26_Witness ==
    /\ curve.pc = "point" /\ curve.op = "addSelf"
    /\ ~CurvePoint_isZero(curve.prev)
    /\ ~CurvePoint_isZero(curve.p)
    /\ curve.p = CurvePoint_twice(curve.prev)

\* P.add(P) on the identity.
AddSelfOfIdentity ==
    curve.pc = "point" /\ curve.op = "addSelf" /\ CurvePoint_isZero(curve.prev)

(***************************************************************************)
(* normalize and operator==, checked under SpecCurve.                      *)
(***************************************************************************)
\* A valid point: the identity (0, 1, 0), or a triple with Z # 0 on the
\* curve.
ValidPoint(pt) ==
    \/ pt = CurvePoint_ZERO
    \/ ToInt(pt.z) # 0 /\ RefOnCurveProjective(pt)

\* The points at hand in a state: the current one, the operands it came
\* from, and other encodings of it and of its negative.
PointsAtHand ==
    {curve.p, Scaled(curve.p, 3), Negated(curve.p), Scaled(Negated(curve.p), 5), CurvePoint_G}
        \cup (IF curve.pc = "point" THEN {curve.prev, curve.other} ELSE {})

\* The valid points at hand, each with the group element it denotes and
\* with what normalize leaves of it.
NormalizedAtHand ==
    Let({valid : valid \in {{[point |-> a, element |-> RefAffine(a),
                              normalized |-> CurvePoint_normalize(a)]
                             : a \in {b \in PointsAtHand : ValidPoint(b)}}}})

\* C27: normalize turns a valid point with Z # 0 into (X/Z, Y/Z, 1), leaves
\* the identity (0, 1, 0) as it is, and is idempotent; two valid points are
\* the same group element exactly when their normalized forms are equal
\* under operator==.
C27_Normalize ==
    /\ (curve.pc = "point" /\ curve.op = "normalize" /\ ValidPoint(curve.prev)) =>
          /\ ToInt(curve.prev.z) # 0 =>
                /\ ToInt(curve.p.x)
                      = RefMulMod(ToInt(curve.prev.x), RefInverse(ToInt(curve.prev.z), RefP), RefP)
                /\ ToInt(curve.p.y)
                      = RefMulMod(ToInt(curve.prev.y), RefInverse(ToInt(curve.prev.z), RefP), RefP)
                /\ curve.p.z = FI_ONE
          /\ curve.prev = CurvePoint_ZERO => curve.p = CurvePoint_ZERO
          /\ CurvePoint_normalize(curve.p) = curve.p
    /\ curve.pc \in {"start", "point"} =>
          \A a \in NormalizedAtHand, b \in NormalizedAtHand :
             /\ CurvePoint_normalize(a.normalized) = a.normalized
             /\ (a.element = b.element) <=> CurvePoint_eq(a.normalized, b.normalized)

\* C27 happens: normalize acted on a valid point with Z other than 0 and 1,
\* and the point it came from by twice() or add() had another encoding of
\* the same element at hand.
C27_Witness ==
    /\ curve.pc = "point" /\ curve.op = "normalize"
    /\ ValidPoint(curve.prev)
    /\ ToInt(curve.prev.z) \notin {0, 1}
    /\ curve.p.z = FI_ONE
    /\ ~CurvePoint_eq(curve.p, curve.prev)
    /\ RefAffine(curve.p) = RefAffine(curve.prev)

\* normalize acted on the identity.
NormalizedIdentity ==
    curve.pc = "point" /\ curve.op = "normalize" /\ curve.prev = CurvePoint_ZERO

\* Every point at hand is valid.
PointsAtHandValid ==
    curve.pc \in {"start", "point"} => \A a \in PointsAtHand : ValidPoint(a)

(***************************************************************************)
(* The two versions of CurvePoint::add side by side.                       *)
(***************************************************************************)
\* The two other points with the y of G: (Beta, y) and (Beta^2, y), where
\* Beta = 5879734 is a primitive cube root of 1 modulo p and G = (1, y).
SameYAsG ==
    {[x |-> FromInt(5879734), y |-> CurvePoint_G.y, z |-> FI_ONE],
     [x |-> FromInt(10897202), y |-> CurvePoint_G.y, z |-> FI_ONE]}

\* The operands: the identity, G, -G, the two other points with the y of G,
\* 7*G, 2*G, and other encodings of G, -G and of a point with the y of G.
HeaderPoints ==
    {CurvePoint_ZERO,
     CurvePoint_G,
     Negated(CurvePoint_G),
     [x |-> FromInt(5531353), y |-> FromInt(7858571), z |-> FI_ONE],
     CurvePoint_twice(CurvePoint_G),
     Scaled(CurvePoint_G, 2),
     Scaled(Negated(CurvePoint_G), 5)}
        \cup SameYAsG \cup {Scaled(pt, 3) : pt \in SameYAsG}

InitHeader ==
    /\ hdr \in {[pc |-> "start", p |-> p, q |-> q] : p \in HeaderPoints, q \in HeaderPoints}
    /\ curve = Idle
    /\ ecdsa = Idle
    /\ field = Idle
    /\ recip = Idle
    /\ uint = Idle
    /\ trace = Idle
    /\ sha = Idle
    /\ b58 = Idle
    /\ xkey = Idle

\* p.add(q), in both versions.
HeaderAdd ==
    /\ hdr.pc = "start"
    /\ hdr' = [pc |-> "added", p |-> hdr.p, q |-> hdr.q,
               header |-> CurvePointHpp_add(hdr.p, hdr.q),
               sum |-> CurvePoint_add(hdr.p, hdr.q)]
    /\ UNCHANGED <<curve, ecdsa, field, recip, uint, trace, sha, b58, xkey>>

\* p.twice(), in both versions.
HeaderTwice ==
    /\ hdr.pc = "start"
    /\ hdr.q = CurvePoint_ZERO
    /\ hdr' = [pc |-> "twiced", p |-> hdr.p,
               header |-> CurvePointHpp_twice(hdr.p),
               double |-> CurvePoint_twice(hdr.p)]
    /\ UNCHANGED <<curve, ecdsa, field, recip, uint, trace, sha, b58, xkey>>

NextHeader ==
    \/ HeaderAdd
    \/ HeaderTwice

SpecHeader == InitHeader /\ [][NextHeader]_vars

\* Two distinct points of the curve with the same y, in any encoding.
SameYOtherX(p, q) ==
    /\ ~RefAffine(p).inf /\ ~RefAffine(q).inf
    /\ RefAffine(p).y = RefAffine(q).y
    /\ RefAffine(p).x # RefAffine(q).x

\* The two versions leave the same point after normalize, but for the
\* operands in leftOut.
HeaderAddAgrees(leftOut) ==
    (hdr.pc = "added" /\ <<hdr.p, hdr.q>> \notin leftOut) =>
        /\ RefAffine(hdr.sum) = RefAdd(RefAffine(hdr.p), RefAffine(hdr.q))
        /\ CurvePoint_normalize(hdr.header) = CurvePoint_normalize(hdr.sum)

\* C28: the add of CurvePoint.hpp gives, after normalize, the same point as
\* the add of CurvePoint.cpp for every pair of operands on the curve or the
\* identity, two distinct points with the same y included.
C28_HeaderAdd == HeaderAddAgrees({})

\* The same for all operands but two distinct points with the same y.
HeaderAddOffSameY ==
    HeaderAddAgrees({pq \in HeaderPoints \X HeaderPoints : SameYOtherX(pq[1], pq[2])})

\* On two distinct points with the same y the add of CurvePoint.hpp leaves
\* the identity, and the add of CurvePoint.cpp the third point with that y,
\* negated.
HeaderAddOnSameY ==
    (hdr.pc = "added" /\ SameYOtherX(hdr.p, hdr.q)) =>
        /\ CurvePoint_isZero(hdr.header)
        /\ ~CurvePoint_isZero(hdr.sum)
        /\ RefAffine(hdr.sum).y = (RefP - RefAffine(hdr.p).y) % RefP

\* The two versions of twice leave the same point after normalize.
HeaderTwiceAgrees ==
    hdr.pc = "twiced" =>
        CurvePoint_normalize(hdr.header) = CurvePoint_normalize(hdr.double)

\* add acted on two distinct points with the same y.
HeaderAddedSameY == hdr.pc = "added" /\ SameYOtherX(hdr.p, hdr.q)

\* Every operand is the identity or on the curve.
HeaderOperandsValid ==
    hdr.pc = "start" => ValidPoint(hdr.p) /\ ValidPoint(hdr.q)

(***************************************************************************)
(* verify and the sign of s, checked under SpecEcdsa.                      *)
(***************************************************************************)
\* C29: verify has no low-S policy: for r and s in (0, n), verify on
\* (r, s) and verify on (r, n - s) return the same.
C29_NoLowS ==
    ecdsa.pc = "mirrored" =>
        /\ 0 < ToInt(ecdsa.r) /\ ToInt(ecdsa.r) < RefN
        /\ 0 < ToInt(ecdsa.s) /\ ToInt(ecdsa.s) < RefN
        /\ ToInt(ecdsa.mirroredS) = RefN - ToInt(ecdsa.s)
        /\ ecdsa.mirroredRet = ecdsa.verifyRet
        /\ ecdsa.assertsHold

\* C29 happens: verify accepted a signature with s at most (n - 1) / 2 and
\* then the same with n - s, which is above (n - 1) / 2.
C29_Witness ==
    /\ ecdsa.pc = "mirrored"
    /\ ecdsa.verifyRet /\ ecdsa.mirroredRet
    /\ ToInt(ecdsa.s) <= (RefN - 1) \div 2
    /\ ToInt(ecdsa.mirroredS) > (RefN - 1) \div 2

\* verify refused a signature in range and then the same with n - s.
MirroredRefused ==
    ecdsa.pc = "mirrored" /\ ~ecdsa.verifyRet /\ ~ecdsa.mirroredRet
        /\ CurvePoint_isOnCurve(ecdsa.publicKey)

(***************************************************************************)
(* Decoding is canonical, checked under SpecBase58.                        *)
(***************************************************************************)
\* The string the encoder of the kind writes for what a decoder gave out.
Reencoded(kind, out) ==
    CASE kind = "pubkeyHash" ->
            Base58Check_pubkeyHashToBase58Check(out.pubkeyHash, out.version)
      [] kind = "privateKey" ->
            Base58Check_privateKeyToBase58Check(out.privKey, out.version, out.isCompressed)
      [] kind = "extendedPrivateKey" ->
            Base58Check_extendedPrivateKeyToBase58Check(out)

\* C30: whenever a decoder accepts a string, the matching encoder applied
\* to what it gave out (version and payload, with the compressed flag of a
\* private key) writes that string again, character for character; so a
\* string that is accepted is determined by what it decodes to.
C30_Canonical ==
    (b58.pc = "decoded" /\ b58.ret) => Reencoded(b58.kind, b58.out) = b58.str

\* C30 happens: a decoder accepted a string with leading '1's, and the
\* encoder writes it again from what was decoded.
C30_Witness ==
    /\ b58.pc = "decoded" /\ b58.ret
    /\ b58.str[1] = 49
    /\ Reencoded(b58.kind, b58.out) = b58.str

\* A string with one more leading '1' than the encoder wrote was refused.
OneMoreRefused ==
    /\ b58.pc = "decoded" /\ ~b58.ret
    /\ b58.how = "damaged"
    /\ Len(b58.str) >= MinLen(b58.kind) /\ Len(b58.str) <= MaxLen(b58.kind)
    /\ b58.str[1] = 49
    /\ \A k \in 1..Len(b58.str) : Base58Check_strchr(b58.str[k]) # -1

====
